---- MODULE Spec2Model ----
(***************************************************************************)
(* A model of the DrScratch console analyzers:                             *)
(*   console_analyzer.py                 (single process, "single")        *)
(*   console_analyzer_multiprocess.py    (multiprocessing.Pool, "pool")    *)
(*   console_analyzer_with_metadata.py   (ProcessPoolExecutor, "meta")     *)
(* The durable state is the input directory, the CSV output file and the   *)
(* JSON progress file; the volatile state is one analyzer process with its *)
(* user-space CSV buffer, its progress set and its worker pool.  A run may *)
(* be killed at any step (Crash), which loses the volatile state.          *)
(***************************************************************************)
EXTENDS Integers, Sequences, FiniteSets, TLC

(***************************************************************************)
(* Bounds of the model.                                                    *)
(***************************************************************************)
NumFiles == 2
MaxRuns == 2
MaxInterval == 3
MaxRetries == 2
MaxItems == 2
MaxPending == 9
MaxChunk == 5
DefaultRetries == 2

(***************************************************************************)
(* Program constants.                                                      *)
(***************************************************************************)
DefaultSaveInterval == 10
MaxPoolCap == 8
MaxCpu == 2
SizeCeiling == 100 * 1024 * 1024
NoneVal == "<None>"

SkillNames ==
  <<"Abstraction", "Parallelization", "Logic", "Synchronization", "FlowControl",
    "UserInteractivity", "DataRepresentation", "MathOperators", "MotionOperators">>

SeqToSet(s) == {s[i] : i \in 1..Len(s)}

SkillSet == SeqToSet(SkillNames)

(***************************************************************************)
(* File names.  A name is a string; NameChars gives its characters as code *)
(* points so that the string functions of the code can be computed.        *)
(***************************************************************************)
AllNames == <<"100.sb3", "abc.sb3", "000.sb3", "200.sb3">>

Names == {AllNames[i] : i \in 1..NumFiles}

NameChars(n) ==
  CASE n = "100.sb3" -> <<49, 48, 48, 46, 115, 98, 51>>
    [] n = "abc.sb3" -> <<97, 98, 99, 46, 115, 98, 51>>
    [] n = "000.sb3" -> <<48, 48, 48, 46, 115, 98, 51>>
    [] n = "200.sb3" -> <<50, 48, 48, 46, 115, 98, 51>>
    [] n = "notes.txt" -> <<110, 111, 116, 101, 115, 46, 116, 120, 116>>
    [] n = "7.SB3" -> <<55, 46, 83, 66, 51>>

Lower(s) == [i \in 1..Len(s) |-> IF s[i] \in 65..90 THEN s[i] + 32 ELSE s[i]]

EndsWith(s, t) ==
  /\ Len(s) >= Len(t)
  /\ SubSeq(s, Len(s) - Len(t) + 1, Len(s)) = t

DotSb3 == <<46, 115, 98, 51>>

\* str < str of Python: lexicographic on code points
RECURSIVE StrLess(_, _)
StrLess(s, t) ==
  IF t = <<>> THEN FALSE
  ELSE IF s = <<>> THEN TRUE
  ELSE IF Head(s) # Head(t) THEN Head(s) < Head(t)
  ELSE StrLess(Tail(s), Tail(t))

NameLess(a, b) == StrLess(NameChars(a), NameChars(b))

\* sorted(S) for a set of names
RECURSIVE Sorted(_)
Sorted(S) ==
  IF S = {} THEN <<>>
  ELSE LET m == CHOOSE x \in S : \A y \in S \ {x} : NameLess(x, y)
       IN <<m>> \o Sorted(S \ {m})

\* os.path.splitext(name)[0]: cut at the last dot that is not a leading dot
SplitextRoot(s) ==
  LET dots == {i \in 2..Len(s) : s[i] = 46}
  IN IF dots = {} THEN s
     ELSE LET d == CHOOSE i \in dots : \A j \in dots : j <= i
          IN SubSeq(s, 1, d - 1)

\* pathlib's Path(name).suffix
Suffix(s) == SubSeq(s, Len(SplitextRoot(s)) + 1, Len(s))

IsDigit(c) == c \in 48..57

RECURSIVE IntOfDigits(_)
IntOfDigits(s) ==
  IF s = <<>> THEN 0
  ELSE 10 * IntOfDigits(SubSeq(s, 1, Len(s) - 1)) + (s[Len(s)] - 48)

\* re.search(r'(\d{3,})', stem): the leftmost run of at least 3 digits, greedy
get_project_id_from_filename(n) ==
  LET stem == SplitextRoot(NameChars(n))
      starts == {i \in 1..Len(stem) - 2 :
                   IsDigit(stem[i]) /\ IsDigit(stem[i + 1]) /\ IsDigit(stem[i + 2])}
  IN IF starts = {} THEN [isNone |-> TRUE, val |-> 0]
     ELSE LET a == CHOOSE i \in starts : \A j \in starts : i <= j
              ends == {j \in a..Len(stem) : \A k \in a..j : IsDigit(stem[k])}
              b == CHOOSE j \in ends : \A k \in ends : k <= j
          IN [isNone |-> FALSE, val |-> IntOfDigits(SubSeq(stem, a, b))]

\* Python truthiness of Optional[int]: None and 0 are falsy
Truthy(pid) == ~pid.isNone /\ pid.val # 0

(***************************************************************************)
(* Python dicts with string keys: a sequence of <<key, value>> pairs in    *)
(* insertion order.  Values are the strings csv would write (str(v)),      *)
(* except None, which is kept as NoneVal until the writer formats it.      *)
(***************************************************************************)
DictKeys(d) == [i \in 1..Len(d) |-> d[i][1]]

DictKeySet(d) == {d[i][1] : i \in 1..Len(d)}

DictGet(d, k) == d[CHOOSE i \in 1..Len(d) : d[i][1] = k][2]

DictSet(d, k, v) ==
  IF k \in DictKeySet(d)
  THEN [i \in 1..Len(d) |-> IF d[i][1] = k THEN <<k, v>> ELSE d[i]]
  ELSE Append(d, <<k, v>>)

RECURSIVE DictUpdate(_, _)
DictUpdate(d, e) ==
  IF e = <<>> THEN d
  ELSE DictUpdate(DictSet(d, Head(e)[1], Head(e)[2]), Tail(e))

(***************************************************************************)
(* The files of the input directory.  A file has the attributes the code   *)
(* looks at: whether it (still) exists when the worker runs, its size, and *)
(* what decoding and the metric engine make of its content.                *)
(***************************************************************************)
Contents ==
  {"blocks", "partial", "noblocks", "noblocks_babia_raises", "corrupt",
   "engine_error", "memory_error", "permission_error"}

FileSizes == {0, 2048, SizeCeiling, SizeCeiling + 1}

FileAttrs == [exists : BOOLEAN, size : FileSizes, content : Contents]

KindAttrs(k) ==
  CASE k = "blocks"   -> [exists |-> TRUE, size |-> 2048, content |-> "blocks"]
    [] k = "partial"  -> [exists |-> TRUE, size |-> 2048, content |-> "partial"]
    [] k = "noblocks" -> [exists |-> TRUE, size |-> 2048, content |-> "noblocks"]
    [] k = "zero"     -> [exists |-> TRUE, size |-> 0, content |-> "corrupt"]
    [] k = "corrupt"  -> [exists |-> TRUE, size |-> 2048, content |-> "corrupt"]
    [] k = "over"     -> [exists |-> TRUE, size |-> SizeCeiling + 1, content |-> "blocks"]
    [] k = "huge"     -> [exists |-> TRUE, size |-> SizeCeiling,
                          content |-> "memory_error"]
    [] k = "missing"  -> [exists |-> FALSE, size |-> 0, content |-> "corrupt"]
    [] k = "absent"   -> [exists |-> FALSE, size |-> 0, content |-> "corrupt"]

\* the kinds of file the directories of the model are made of: every file may
\* be any kind of analysable project, or one of two or three kinds of unusable
\* file ("huge": loading it exhausts the memory)
DirKinds ==
  {"blocks", "partial", "noblocks", "zero", "corrupt", "over", "huge", "missing"}

\* a directory whose projects have been removed since an earlier use: no
\* name is listed
EmptiedDir == [n \in Names |-> "absent"]

\* the names input_path.iterdir() / os.listdir yield
Listed(d) == {n \in Names : d[n] # "absent"}

KindsOf(n) ==
  {"blocks", "partial", "noblocks"} \cup
  (CASE n = "100.sb3" -> {"zero", "corrupt"}
     [] n = "abc.sb3" -> {"over", "huge", "missing"}
     [] n = "000.sb3" -> {"zero", "missing"}
     [] OTHER -> {"corrupt", "over"})

(***************************************************************************)
(* The MetricEngine collaborators (Mastery, DuplicateScripts, DeadCode,    *)
(* Babia, SpriteNaming, BackdropNaming) as far as the analyzers read their *)
(* results.  "skills" are the skill keys present in mastery['extended'].   *)
(***************************************************************************)
SumSkillPoints == "36"

EngineMetrics(content) ==
  [total_blocks |-> "5", points |-> "9", max |-> SumSkillPoints,
   competence |-> "Developing",
   skills |-> IF content = "partial" THEN SkillSet \ {"MotionOperators"} ELSE SkillSet,
   skillval |-> "1", dup |-> "0", dead |-> "1", sprite |-> "1", backdrop |-> "1",
   babia |-> "2"]

get_empty_metrics ==
  [total_blocks |-> "0", points |-> "0", max |-> SumSkillPoints,
   competence |-> "Basic", skills |-> SkillSet, skillval |-> "0",
   dup |-> "0", dead |-> "0", sprite |-> "0", backdrop |-> "0", babia |-> "0"]

NoExc == "none"

\* what load_json_project and the engine raise on this content
ContentExc(content) ==
  CASE content = "corrupt" -> "BadZipFile"
    [] content = "engine_error" -> "KeyError"
    [] content = "memory_error" -> "MemoryError"
    [] content = "permission_error" -> "PermissionError"
    [] OTHER -> NoExc

\* variant for C16: the block count is not looked at, the engine runs on
\* every project
analyze_file_safe_unguarded(a) ==
  IF ContentExc(a.content) # NoExc
  THEN [exc |-> ContentExc(a.content), metrics |-> get_empty_metrics, has_blocks |-> FALSE]
  ELSE IF a.content \in {"noblocks", "noblocks_babia_raises"}
  THEN [exc |-> "ZeroDivisionError", metrics |-> get_empty_metrics, has_blocks |-> FALSE]
  ELSE [exc |-> NoExc, metrics |-> EngineMetrics(a.content), has_blocks |-> TRUE]

\* analyze_file_safe of the metadata analyzer
analyze_file_safe(a) ==
  IF ContentExc(a.content) # NoExc
  THEN [exc |-> ContentExc(a.content), metrics |-> get_empty_metrics, has_blocks |-> FALSE]
  ELSE IF a.content = "noblocks"
  THEN [exc |-> NoExc, metrics |-> [get_empty_metrics EXCEPT !.babia = "2"],
        has_blocks |-> FALSE]
  ELSE IF a.content = "noblocks_babia_raises"
  THEN [exc |-> NoExc, metrics |-> get_empty_metrics, has_blocks |-> FALSE]
  ELSE [exc |-> NoExc, metrics |-> EngineMetrics(a.content), has_blocks |-> TRUE]

\* analyze_file of console_analyzer.py: no block count, the engine runs on
\* every project; it is taken to raise on a project without blocks, the case
\* analyze_file_safe keeps from it
analyze_file(a) ==
  IF ~a.exists
  THEN [exc |-> "FileNotFoundError", metrics |-> get_empty_metrics]
  ELSE IF ContentExc(a.content) # NoExc
  THEN [exc |-> ContentExc(a.content), metrics |-> get_empty_metrics]
  ELSE IF a.content \in {"noblocks", "noblocks_babia_raises"}
  THEN [exc |-> "ZeroDivisionError", metrics |-> get_empty_metrics]
  ELSE [exc |-> NoExc, metrics |-> EngineMetrics(a.content)]

RECURSIVE SkillPairs(_, _, _)
SkillPairs(skills, m, fill) ==
  IF skills = <<>> THEN <<>>
  ELSE (IF Head(skills) \in m.skills THEN << <<Head(skills), m.skillval>> >>
        ELSE IF fill THEN << <<Head(skills), "0">> >>
        ELSE <<>>) \o SkillPairs(Tail(skills), m, fill)

\* flatten_metrics of the metadata analyzer: absent skills are filled with 0
flatten_metrics_meta(name, m) ==
  << <<"project", name>>, <<"total_blocks", m.total_blocks>>,
     <<"mastery_total_points", m.points>>, <<"mastery_total_max", m.max>>,
     <<"mastery_competence", m.competence>> >>
  \o SkillPairs(SkillNames, m, TRUE)
  \o << <<"duplicateScripts", m.dup>>, <<"deadCode", m.dead>>,
        <<"spriteNaming", m.sprite>>, <<"backdropNaming", m.backdrop>>,
        <<"babia_num_sprites", m.babia>> >>

\* flatten_metrics of console_analyzer.py: absent skills get no key
flatten_metrics(name, m) ==
  << <<"project", name>>,
     <<"mastery_total_points", m.points>>, <<"mastery_total_max", m.max>>,
     <<"mastery_competence", m.competence>> >>
  \o SkillPairs(SkillNames, m, FALSE)
  \o << <<"duplicateScripts", m.dup>>, <<"deadCode", m.dead>>,
        <<"spriteNaming", m.sprite>>, <<"backdropNaming", m.backdrop>>,
        <<"babia_num_sprites", m.babia>> >>

(***************************************************************************)
(* _worker_analyze of the metadata analyzer.                               *)
(***************************************************************************)
Failure(name, err) ==
  [filename |-> name, success |-> FALSE, row |-> <<>>, error |-> err,
   has_blocks |-> TRUE]

\* variant for C4: the size ceiling check (lines 381-386) is left out
_worker_analyze_noceiling(name, a) ==
  IF ~a.exists THEN Failure(name, "File not found")
  ELSE IF a.size = 0 THEN Failure(name, "Empty file")
  ELSE IF ~EndsWith(Lower(NameChars(name)), DotSb3)
  THEN Failure(name, "Invalid file extension")
  ELSE LET r == analyze_file_safe(a)
       IN IF r.exc # NoExc THEN Failure(name, r.exc)
          ELSE [filename |-> name, success |-> TRUE,
                row |-> flatten_metrics_meta(name, r.metrics),
                error |-> NoneVal, has_blocks |-> r.has_blocks]

\* variant for C24: the ceiling itself is rejected too
_worker_analyze_strict(name, a) ==
  IF ~a.exists THEN Failure(name, "File not found")
  ELSE IF a.size = 0 THEN Failure(name, "Empty file")
  ELSE IF a.size >= SizeCeiling THEN Failure(name, "File too large (>100MB)")
  ELSE IF ~EndsWith(Lower(NameChars(name)), DotSb3)
  THEN Failure(name, "Invalid file extension")
  ELSE LET r == analyze_file_safe(a)
       IN CASE r.exc = "MemoryError" -> Failure(name, "Memory error - file too large")
            [] r.exc = "PermissionError" -> Failure(name, "Permission denied")
            [] r.exc \notin {NoExc, "MemoryError", "PermissionError"} ->
                 Failure(name, r.exc)
            [] OTHER ->
                 [filename |-> name, success |-> TRUE,
                  row |-> flatten_metrics_meta(name, r.metrics),
                  error |-> NoneVal, has_blocks |-> r.has_blocks]

_worker_analyze(name, a) ==
  IF ~a.exists THEN Failure(name, "File not found")
  ELSE IF a.size = 0 THEN Failure(name, "Empty file")
  ELSE IF a.size > SizeCeiling THEN Failure(name, "File too large (>100MB)")
  ELSE IF ~EndsWith(Lower(NameChars(name)), DotSb3)
  THEN Failure(name, "Invalid file extension")
  ELSE LET r == analyze_file_safe(a)
       IN CASE r.exc = "MemoryError" -> Failure(name, "Memory error - file too large")
            [] r.exc = "PermissionError" -> Failure(name, "Permission denied")
            [] r.exc \notin {NoExc, "MemoryError", "PermissionError"} ->
                 Failure(name, r.exc)
            [] OTHER ->
                 [filename |-> name, success |-> TRUE,
                  row |-> flatten_metrics_meta(name, r.metrics),
                  error |-> NoneVal, has_blocks |-> r.has_blocks]

(***************************************************************************)
(* _worker of the Pool analyzer: (fname, row, error).                      *)
(***************************************************************************)
\* str(exc): the message of the exception; the MemoryError the interpreter
\* raises has no arguments and its string form is empty
str(exc) ==
  CASE exc = "BadZipFile" -> "File is not a zip file"
    [] exc = "FileNotFoundError" -> "[Errno 2] No such file or directory"
    [] exc = "PermissionError" -> "[Errno 13] Permission denied"
    [] exc = "ZeroDivisionError" -> "division by zero"
    [] exc = "KeyError" -> "'targets'"
    [] exc = "MemoryError" -> ""

_worker(name, a) ==
  LET r == analyze_file(a)
  IN IF r.exc # NoExc
     THEN [filename |-> name, row |-> <<>>, error |-> str(r.exc)]
     ELSE [filename |-> name, row |-> flatten_metrics(name, r.metrics),
           error |-> NoneVal]

(***************************************************************************)
(* Schemas and csv.DictWriter.                                             *)
(***************************************************************************)
MetaColumns ==
  <<"project_id", "Project title", "Author", "Creation date", "Modified date",
    "Remix parent id", "Remix root id", "_meta_error">>

get_fieldnames(include_metadata) ==
  <<"project", "total_blocks", "mastery_total_points", "mastery_total_max",
    "mastery_competence">>
  \o SkillNames
  \o <<"duplicateScripts", "deadCode", "spriteNaming", "backdropNaming",
       "babia_num_sprites", "has_blocks">>
  \o (IF include_metadata THEN MetaColumns ELSE <<>>)

SingleFieldnames ==
  <<"project", "mastery_total_points", "mastery_total_max", "mastery_competence">>
  \o SkillNames
  \o <<"duplicateScripts", "deadCode", "spriteNaming", "backdropNaming",
       "babia_num_sprites">>

CsvCell(v) == IF v = NoneVal THEN "" ELSE v

\* variant for C7: a writer built with extrasaction='ignore'
writerow_ignoring(fieldnames, row) ==
  [raised |-> FALSE,
   line |-> [h |-> FALSE,
             cells |-> [i \in 1..Len(fieldnames) |->
                          IF fieldnames[i] \in DictKeySet(row)
                          THEN CsvCell(DictGet(row, fieldnames[i]))
                          ELSE ""]]]

\* DictWriter.writerow: extra keys raise ValueError (extrasaction='raise'),
\* missing keys are written as restval ''
writerow(fieldnames, row) ==
  [raised |-> DictKeySet(row) \ SeqToSet(fieldnames) # {},
   line |-> [h |-> FALSE,
             cells |-> [i \in 1..Len(fieldnames) |->
                          IF fieldnames[i] \in DictKeySet(row)
                          THEN CsvCell(DictGet(row, fieldnames[i]))
                          ELSE ""]]]

writeheader(fieldnames) == [h |-> TRUE, cells |-> fieldnames]

(***************************************************************************)
(* The metadata a consumed success row is enriched with.  The service      *)
(* either answers within the retry budget ("ok") or does not ("fail").     *)
(***************************************************************************)
FetchOutcomes == {"ok", "fail"}

fetch_project_metadata(pid, outcome) ==
  IF outcome = "ok"
  THEN << <<"project_id", ToString(pid)>>, <<"Project title", "title">>,
          <<"Author", "author">>, <<"Creation date", "2020-01-01">>,
          <<"Modified date", "2020-01-02">>, <<"Remix parent id", NoneVal>>,
          <<"Remix root id", NoneVal>>, <<"_meta_error", NoneVal>> >>
  ELSE << <<"project_id", ToString(pid)>>, <<"Project title", NoneVal>>,
          <<"Author", NoneVal>>, <<"Creation date", NoneVal>>,
          <<"Modified date", NoneVal>>, <<"Remix parent id", NoneVal>>,
          <<"Remix root id", NoneVal>>, <<"_meta_error", "HTTP 404">> >>

\* what one request to the project API comes to: a 200 reply with a JSON
\* object, another status, no reply in time, a 200 reply that is not JSON
Responses == {"ok", "http_404", "timeout", "not_json"}

\* str(e) of the exception an attempt ends with
ErrText(r) ==
  CASE r = "http_404" -> "HTTP 404"
    [] r = "timeout" -> "Read timed out"
    [] r = "not_json" -> "Expecting value"

FetchImpls == {"console_analyzer_with_metadata", "extract_scratch_meta"}

\* variant for C15: the loop sleeps after every failed attempt
after_failure_always_sleeps(attempt, retries_) == "sleep"

\* the except clause of one attempt: sleep before the next one, or give up
after_failure(attempt, retries_) == IF attempt < retries_ THEN "sleep" ELSE "exhausted"

\* variant for C14: the last failure is raised to the caller
on_exhausted_raises(impl, pid, last_err) == [meta |-> <<>>, raised |-> TRUE]

\* every attempt has failed: the metadata analyzer returns a record of
\* None with the error text, extract_scratch_meta re-raises the exception
on_exhausted(impl, pid, last_err) ==
  IF impl = "extract_scratch_meta"
  THEN [meta |-> <<>>, raised |-> TRUE]
  ELSE [meta |-> DictSet(fetch_project_metadata(pid, "fail"), "_meta_error",
                         IF last_err # NoneVal THEN last_err ELSE "Unknown error"),
        raised |-> FALSE]

\* the record a successful attempt returns
on_success(impl, pid) ==
  IF impl = "extract_scratch_meta"
  THEN SubSeq(fetch_project_metadata(pid, "ok"), 1, 7)
  ELSE fetch_project_metadata(pid, "ok")

\* requests is None: no request is made
RequestsUnavailable(pid) ==
  DictSet(fetch_project_metadata(pid, "fail"), "_meta_error",
          "requests module not available")

NoIdMetadata ==
  << <<"project_id", NoneVal>>, <<"Project title", NoneVal>>, <<"Author", NoneVal>>,
     <<"Creation date", NoneVal>>, <<"Modified date", NoneVal>>,
     <<"Remix parent id", NoneVal>>, <<"Remix root id", NoneVal>>,
     <<"_meta_error", "No project ID in filename">> >>

\* row = result.row.copy(); row['has_blocks'] = ...; row.update(meta)
EnrichWith(result, meta) ==
  DictUpdate(DictSet(result.row, "has_blocks",
                     IF result.has_blocks THEN "True" ELSE "False"), meta)

\* the row of extract_scratch_meta's worker
ExtractRow(name, pid, c) ==
  LET row == << <<"project_id", IF pid.isNone THEN NoneVal ELSE ToString(pid.val)>>,
                <<"Project title", NoneVal>>, <<"Author", NoneVal>>,
                <<"Creation date", NoneVal>>, <<"Modified date", NoneVal>>,
                <<"Remix parent id", NoneVal>>, <<"Remix root id", NoneVal>>,
                <<"filename", name>>, <<"_error", NoneVal>> >>
  IN IF pid.isNone THEN DictSet(row, "_error", "No numeric project_id in filename")
     ELSE IF c.raised THEN DictSet(row, "_error", c.last_err)
     ELSE DictUpdate(row, c.meta)

\* the row the coordinator builds from a success result (lines 596-617)
EnrichedRow(result, fm, outcome) ==
  LET row == DictSet(result.row, "has_blocks",
                     IF result.has_blocks THEN "True" ELSE "False")
      pid == get_project_id_from_filename(result.filename)
  IN IF ~fm THEN row
     ELSE IF Truthy(pid) THEN DictUpdate(row, fetch_project_metadata(pid.val, outcome))
     ELSE DictUpdate(row, NoIdMetadata)

(***************************************************************************)
(* State.                                                                  *)
(***************************************************************************)
VARIABLES
  analyzer,        \* which program runs: "meta", "pool" or "single"
  dir,             \* input directory: file name -> kind of file
  fetch_metadata,  \* the current run was started without --no-metadata
  csvDisk,         \* durable content of the CSV file: sequence of lines
  progDisk,        \* durable content of the progress file: sorted list of names
  csvBuf,          \* lines written to the open CSV file and not yet flushed
  pc,              \* position of the coordinator
  ignore_progress, \* --reprocess of the current run
  processed,       \* the in-memory progress set
  counter,         \* ProgressManager.counter
  save_interval,   \* ProgressManager.save_interval
  cpu_count,       \* multiprocessing.cpu_count() of the machine
  fieldnames,      \* schema of the current run's DictWriter
  files,           \* work list still to iterate (single, Pool bootstrap)
  fut,             \* per file: "none", "pending", "running", "done", "consumed"
  num_processes,   \* size of the worker pool
  cur,             \* the item whose row was just written
  successful, failed, no_blocks_count,
  startProgress,   \* history: the progress set the run started with
  lastWrite,       \* history: the last writerow attempt of the run
  intr,            \* history: where the run was when the interrupt arrived
  how,             \* history: how the current run ended, "running" until then
  retries,         \* the retry budget a fetch is called with
  service,         \* what the project API answers to the i-th request
  requests_module, \* the requests package could be imported
  call,            \* one call of fetch_project_metadata: loop index, last_err,
                   \* the requests and sleeps so far, what it returned
  worker_call,     \* one call of _worker_analyze: its file, what it returned and
                   \* whether it opened the archive
  submission,      \* the chunked submission loop: --chunk-size, the loop index
                   \* and the executor.submit calls made so far
  extract,         \* extract_scratch_meta.main: --recursive, what the fetch of
                   \* each file comes to, sb3_files, and the results list
  hist             \* history of all runs: their number, whether every one was
                   \* a normal-mode run that was not killed, the items a run
                   \* stopped on between their row and their progress entry,
                   \* the length of the output file the current run found, and
                   \* whether a reprocess run was killed after truncating it

config ==
  <<analyzer, dir, save_interval, cpu_count, retries, service, requests_module,
    worker_call, submission, extract>>

\* what no step of a run changes
setup == <<config, call>>

stats == <<successful, failed, no_blocks_count>>

csv == <<csvDisk, csvBuf>>

pm == <<processed, counter, progDisk>>

runcfg == <<ignore_progress, fetch_metadata, fieldnames, num_processes, startProgress>>

vars ==
  <<setup, csv, pm, pc, runcfg, files, fut, cur, stats, lastWrite, intr, how, hist>>

Analyzers == {"meta", "pool", "single"}

NoWrite ==
  [name |-> "", missing |-> {}, extra |-> {}, accepted |-> FALSE, schema |-> <<>>,
   cells |-> <<>>]

\* the record kept of one writerow call
WriteRecord(f, schema, row, w) ==
  [name |-> f, missing |-> SeqToSet(schema) \ DictKeySet(row),
   extra |-> DictKeySet(row) \ SeqToSet(schema), accepted |-> ~w.raised,
   schema |-> schema, cells |-> IF w.raised THEN <<>> ELSE w.line.cells]

NoIntr ==
  [at |-> "none", item |-> "", running |-> {}, unconsumed |-> {}, rows |-> 0,
   processed |-> {}]

NoCall ==
  [attempt |-> 0, last_err |-> NoneVal, trace |-> <<>>, meta |-> <<>>,
   raised |-> FALSE]

NoWorkerCall == [fname |-> "", attrs |-> <<>>, result |-> <<>>, opened |-> FALSE]

NoSubmission ==
  [chunk_size |-> [isNone |-> TRUE, val |-> 0], effective_chunk_size |-> 0, i |-> 0,
   submitted |-> <<>>]

\* the runs take the result of a worker as an input and submit with the
\* default chunk size
NoExtract ==
  [tree |-> {}, recursive |-> FALSE, outcome |-> <<>>, sb3_files |-> <<>>,
   done |-> {}, results |-> <<>>]

HarnessParked ==
  /\ worker_call = NoWorkerCall
  /\ submission = NoSubmission
  /\ extract = NoExtract

\* the runs take the outcome of a fetch as an input (FetchOutcomes)
FetchParked ==
  /\ retries = DefaultRetries
  /\ service = <<>>
  /\ requests_module = TRUE
  /\ call = NoCall

NoFutures == [n \in Names |-> "none"]

Running == {n \in Names : fut[n] = "running"}

Pending == {n \in Names : fut[n] = "pending"}

PoolAlive == {"loop", "wrote", "flush", "drain", "p_loop", "p_wrote"}

Min(a, b) == IF a < b THEN a ELSE b

Max(a, b) == IF a > b THEN a ELSE b

\* the output file an earlier use has left: the header and the row of a
\* project that is no longer in the directory
OldProject == "200.sb3"

OldCsv(fm) ==
  <<writeheader(get_fieldnames(fm)),
    writerow(get_fieldnames(fm),
             EnrichedRow(_worker_analyze(OldProject, KindAttrs("blocks")), fm, "ok")).line>>

\* a directory of two usable or unusable files and no output yet; or, for
\* the metadata analyzer, an emptied directory with the output file of an
\* earlier use and no progress file
Init ==
  /\ analyzer \in Analyzers
  /\ dir \in {d \in [Names -> DirKinds] : \A n \in Names : d[n] \in KindsOf(n)}
             \cup (IF analyzer = "meta" THEN {EmptiedDir} ELSE {})
  /\ fetch_metadata = FALSE
  /\ save_interval = DefaultSaveInterval
  /\ cpu_count \in (IF analyzer = "single" THEN {1} ELSE 1..MaxCpu)
  /\ csvDisk \in (IF dir = EmptiedDir THEN {OldCsv(fm) : fm \in BOOLEAN} ELSE {<<>>})
  /\ progDisk = <<>>
  /\ csvBuf = <<>>
  /\ pc = "idle"
  /\ ignore_progress = FALSE
  /\ processed = {}
  /\ counter = 0
  /\ fieldnames = <<>>
  /\ files = <<>>
  /\ fut = NoFutures
  /\ num_processes = 0
  /\ cur = ""
  /\ successful = 0
  /\ failed = 0
  /\ no_blocks_count = 0
  /\ startProgress = {}
  /\ lastWrite = NoWrite
  /\ intr = NoIntr
  /\ how = "none"
  /\ hist = [runs |-> 0, clean |-> TRUE, window |-> {}, base |-> 0, cut |-> FALSE]
  /\ FetchParked
  /\ HarnessParked

(***************************************************************************)
(* The progress file and ProgressManager.                                  *)
(***************************************************************************)
\* json.dump(sorted(processed), fh)
save_progress(set) == Sorted(set)

\* set(json.load(fh)); an absent file gives the empty set
load_progress(disk) == SeqToSet(disk)

\* variant for C6: add records the identifier only when it also saves
pm_add_forgets(f) ==
  IF f \in processed \/ counter + 1 < save_interval
  THEN [processed |-> processed, counter |-> counter + 1, disk |-> progDisk]
  ELSE [processed |-> processed \cup {f}, counter |-> 0,
        disk |-> save_progress(processed \cup {f})]

\* variant for C11: the counter is not reset when add saves
pm_add_noreset(f) ==
  IF f \in processed
  THEN [processed |-> processed, counter |-> counter, disk |-> progDisk]
  ELSE IF counter + 1 >= save_interval
  THEN [processed |-> processed \cup {f}, counter |-> counter + 1,
        disk |-> save_progress(processed \cup {f})]
  ELSE [processed |-> processed \cup {f}, counter |-> counter + 1, disk |-> progDisk]

\* variant for C26: add replaces the set by the new identifier
pm_add_replaces(f) ==
  IF f \in processed
  THEN [processed |-> processed, counter |-> counter, disk |-> progDisk]
  ELSE IF counter + 1 >= save_interval
  THEN [processed |-> {f}, counter |-> 0, disk |-> save_progress({f})]
  ELSE [processed |-> {f}, counter |-> counter + 1, disk |-> progDisk]

\* ProgressManager.add: the new processed set, counter and progress file
pm_add(f) ==
  IF f \in processed
  THEN [processed |-> processed, counter |-> counter, disk |-> progDisk]
  ELSE IF counter + 1 >= save_interval
  THEN [processed |-> processed \cup {f}, counter |-> 0,
        disk |-> save_progress(processed \cup {f})]
  ELSE [processed |-> processed \cup {f}, counter |-> counter + 1, disk |-> progDisk]

\* variant for C10: save leaves the file as it is
pm_save_skip == [counter |-> counter, disk |-> progDisk]

\* ProgressManager.save
pm_save == [counter |-> 0, disk |-> save_progress(processed)]

\* variant for C18: the progress file is read in reprocess mode too
pm_init_loads(ign) == load_progress(progDisk)

\* variant for C3: the progress file is not read
pm_init_fresh(ign) == {}

\* ProgressManager.__init__: processed
pm_init(ign) == IF ign THEN {} ELSE load_progress(progDisk)

(***************************************************************************)
(* Work enumeration and submission.                                        *)
(***************************************************************************)
\* variant for C5: the filter on processed is left out
get_sb3_files_unfiltered(done) ==
  Sorted({n \in Listed(dir) : Lower(Suffix(NameChars(n))) = DotSb3})

\* get_sb3_files: the .sb3 files of the directory not in processed, sorted
get_sb3_files(done) ==
  Sorted({n \in Listed(dir) : Lower(Suffix(NameChars(n))) = DotSb3 /\ n \notin done})

\* chunk_size or max(1, len(files) // (num_processes * 4))
effective_chunk_size(chunk_size, n, np) ==
  IF chunk_size # 0 THEN chunk_size ELSE Max(1, n \div (np * 4))

\* the names submitted by the loop over range(0, len(files), step)
ChunkedSubmission(fs, step) ==
  IF step <= 0 THEN {}
  ELSE UNION {SeqToSet(SubSeq(fs, i + 1, Min(i + step, Len(fs)))) :
                i \in {j \in 0..Len(fs) - 1 : j % step = 0}}

\* the pool keeps its processes busy: of the items waiting in submission
\* order, as many are taken as there are free processes
Dispatch(f0, np) ==
  LET waiting == Sorted({n \in Names : f0[n] = "pending"})
      free == np - Cardinality({n \in Names : f0[n] = "running"})
      taken == SeqToSet(SubSeq(waiting, 1, Min(free, Len(waiting))))
  IN [n \in Names |-> IF n \in taken THEN "running" ELSE f0[n]]

\* variant for C13: the ceiling of 8 is left out
default_num_processes_uncapped(cpu, n) == Min(cpu, n)

\* line 558 with processes None: min(cpu_count(), len(files), 8)
default_num_processes(cpu, n) == Min(Min(cpu, n), MaxPoolCap)

CanStart == pc \in {"idle", "done"} /\ hist.runs < MaxRuns

\* what every run starts with
BeginRun(ign) ==
  /\ ignore_progress' = ign
  /\ fetch_metadata' \in (IF analyzer = "meta" THEN BOOLEAN ELSE {FALSE})
  /\ cur' = ""
  /\ successful' = 0
  /\ failed' = 0
  /\ no_blocks_count' = 0
  /\ lastWrite' = NoWrite
  /\ intr' = NoIntr
  /\ hist' = [hist EXCEPT !.runs = @ + 1, !.clean = @ /\ ~ign,
                        !.base = Len(csvDisk)]

(***************************************************************************)
(* analyze_directory_with_metadata.                                        *)
(***************************************************************************)
\* lines 528-588: load progress, enumerate, open the CSV, create the executor
\* and submit everything.  With ~poolOk the executor raises instead (it cannot
\* start its processes): except Exception, finally save (lines 641-644).
MetaBegin(ign, poolOk) ==
  /\ analyzer = "meta"
  /\ CanStart
  /\ BeginRun(ign)
  /\ LET proc == pm_init(ign)
         fs == get_sb3_files(proc)
         np == IF fs = <<>> THEN 0 ELSE default_num_processes(cpu_count, Len(fs))
         csv_exists == csvDisk # <<>> /\ ~ign
         fields == get_fieldnames(fetch_metadata')
     IN /\ processed' = proc
        /\ startProgress' = proc
        /\ counter' = 0
        /\ files' = fs
        /\ num_processes' = np
        /\ IF fs = <<>>
           THEN /\ poolOk
                /\ pc' = "done"
                /\ how' = "nofiles"
                /\ fut' = NoFutures
                /\ fieldnames' = <<>>
                /\ UNCHANGED <<csv, progDisk>>
           ELSE /\ fieldnames' = fields
                /\ csvDisk' = IF ign THEN <<>> ELSE csvDisk
                /\ csvBuf' = IF ~csv_exists \/ ign THEN <<writeheader(fields)>> ELSE <<>>
                /\ IF poolOk
                   THEN /\ pc' = "loop"
                        /\ how' = "running"
                        /\ fut' = Dispatch([n \in Names |->
                                     IF n \in ChunkedSubmission(fs,
                                                effective_chunk_size(0, Len(fs), np))
                                     THEN "pending" ELSE "none"], np)
                        /\ UNCHANGED progDisk
                   ELSE /\ pc' = "saved"
                        /\ how' = "poolerror"
                        /\ fut' = NoFutures
                        /\ progDisk' = save_progress(proc)
  /\ UNCHANGED setup

\* what the validation of lines 497-526 finds: the input path missing or
\* not a directory, the directory of the output not writable
Environments == [input : {"directory", "missing", "file"}, output_writable : BOOLEAN]

validate(env) ==
  IF env.input = "missing" THEN "input_missing"
  ELSE IF env.input # "directory" THEN "input_not_directory"
  ELSE IF ~env.output_writable THEN "output_unwritable"
  ELSE "ok"

\* variant for C19: the validation comes after the output file is opened
MetaInvalidLate(ign, env) ==
  /\ analyzer = "meta"
  /\ CanStart
  /\ validate(env) # "ok"
  /\ BeginRun(ign)
  /\ processed' = pm_init(ign)
  /\ startProgress' = pm_init(ign)
  /\ csvDisk' = <<writeheader(get_fieldnames(fetch_metadata'))>>
  /\ counter' = 0
  /\ files' = <<>>
  /\ fut' = NoFutures
  /\ num_processes' = 0
  /\ fieldnames' = <<>>
  /\ pc' = "done"
  /\ how' = "invalid"
  /\ UNCHANGED <<setup, csvBuf, progDisk>>

\* lines 497-526: a validation fails, the error is reported and the function
\* returns; no ProgressManager, no file list, no output file
MetaInvalid(ign, env) ==
  /\ analyzer = "meta"
  /\ CanStart
  /\ validate(env) # "ok"
  /\ BeginRun(ign)
  /\ processed' = {}
  /\ startProgress' = {}
  /\ counter' = 0
  /\ files' = <<>>
  /\ fut' = NoFutures
  /\ num_processes' = 0
  /\ fieldnames' = <<>>
  /\ pc' = "done"
  /\ how' = "invalid"
  /\ UNCHANGED <<setup, csv, progDisk>>

\* main, lines 709-727, and the interpreter: status 1 when an exception
\* leaves the function, the status of the signal when the process is killed,
\* 0 when the function returns
exit_status(h) ==
  CASE h = "aborted" -> 1
    [] h = "killed" -> 128 + 9
    [] OTHER -> 0

MetaStart(ign) == MetaBegin(ign, TRUE)

MetaPoolError(ign) == MetaBegin(ign, FALSE)

\* a worker process finishes its item and takes the next one
WorkerDone(f) ==
  /\ pc \in PoolAlive
  /\ fut[f] = "running"
  /\ fut' = Dispatch([fut EXCEPT ![f] = "done"], num_processes)
  /\ UNCHANGED <<setup, csv, pm, pc, runcfg, files, cur, stats, lastWrite, intr,
                 how, hist>>

\* lines 590-619 and 629-631: as_completed yields f; result(), enrichment, writerow
MetaConsume(f, outcome) ==
  /\ pc = "loop"
  /\ fut[f] = "done"
  /\ fut' = [fut EXCEPT ![f] = "consumed"]
  /\ LET result == _worker_analyze(f, KindAttrs(dir[f]))
         row == EnrichedRow(result, fetch_metadata, outcome)
         w == writerow(fieldnames, row)
     IN IF result.success
        THEN /\ lastWrite' = WriteRecord(f, fieldnames, row, w)
             /\ IF w.raised
                THEN /\ pc' = "loop"
                     /\ UNCHANGED <<csvBuf, cur>>
                ELSE /\ pc' = "wrote"
                     /\ csvBuf' = Append(csvBuf, w.line)
                     /\ cur' = f
             /\ UNCHANGED failed
        ELSE /\ failed' = failed + 1
             /\ pc' = "flush"
             /\ UNCHANGED <<csvBuf, cur, lastWrite>>
  /\ UNCHANGED <<setup, csvDisk, pm, runcfg, files, successful, no_blocks_count,
                 intr, how, hist>>

\* variant for C30: a project without blocks is counted but not as a success
MetaAddNoBlocksApart ==
  /\ pc = "wrote"
  /\ LET a == pm_add(cur)
     IN /\ processed' = a.processed
        /\ counter' = a.counter
        /\ progDisk' = a.disk
  /\ IF _worker_analyze(cur, KindAttrs(dir[cur])).has_blocks
     THEN /\ successful' = successful + 1
          /\ UNCHANGED no_blocks_count
     ELSE /\ no_blocks_count' = no_blocks_count + 1
          /\ UNCHANGED successful
  /\ pc' = "flush"
  /\ UNCHANGED <<setup, csv, runcfg, files, fut, cur, failed, lastWrite, intr, how,
                 hist>>

\* lines 620-628: progress_manager.add and the statistics
MetaAdd ==
  /\ pc = "wrote"
  /\ LET a == pm_add(cur)
     IN /\ processed' = a.processed
        /\ counter' = a.counter
        /\ progDisk' = a.disk
  /\ successful' = successful + 1
  /\ no_blocks_count' =
       IF _worker_analyze(cur, KindAttrs(dir[cur])).has_blocks
       THEN no_blocks_count ELSE no_blocks_count + 1
  /\ pc' = "flush"
  /\ UNCHANGED <<setup, csv, runcfg, files, fut, cur, failed, lastWrite, intr, how,
                 hist>>

\* line 633: csvfile.flush()
MetaFlush ==
  /\ pc = "flush"
  /\ csvDisk' = csvDisk \o csvBuf
  /\ csvBuf' = <<>>
  /\ pc' = "loop"
  /\ UNCHANGED <<setup, pm, runcfg, files, fut, cur, stats, lastWrite, intr, how,
                 hist>>

\* finally: progress_manager.save()
FinalSave(h) ==
  /\ progDisk' = pm_save.disk
  /\ counter' = pm_save.counter
  /\ pc' = "saved"
  /\ how' = h
  /\ UNCHANGED <<setup, csv, processed, runcfg, files, cur, stats, lastWrite>>

\* variant for C21: the loop ends as soon as one outcome has been consumed
MetaLoopEndEarly ==
  /\ pc = "loop"
  /\ \E n \in Names : fut[n] = "consumed"
  /\ FinalSave("normal")
  /\ UNCHANGED <<fut, intr, hist>>

\* every outcome consumed: the executor exits, finally: progress_manager.save()
MetaLoopEnd ==
  /\ pc = "loop"
  /\ \A n \in Names : fut[n] \in {"none", "consumed"}
  /\ FinalSave("normal")
  /\ UNCHANGED <<fut, intr, hist>>

\* KeyboardInterrupt in the consumption loop: it leaves the loop, and the
\* executor's __exit__ waits for the submitted work
MetaInterrupt ==
  /\ pc \in {"loop", "wrote", "flush"}
  /\ intr' = [at |-> pc, item |-> cur, running |-> Running,
              unconsumed |-> {n \in Names : fut[n] \in {"pending", "running", "done"}},
              rows |-> Len(csvDisk) + Len(csvBuf), processed |-> processed]
  /\ hist' = IF pc = "wrote" THEN [hist EXCEPT !.window = @ \cup {cur}] ELSE hist
  /\ pc' = "drain"
  /\ UNCHANGED <<setup, csv, pm, runcfg, files, fut, cur, stats, lastWrite, how>>

\* variant for C9: the executor is shut down without waiting for its work
MetaDrainEndNoWait ==
  /\ pc = "drain"
  /\ FinalSave("interrupt")
  /\ UNCHANGED <<fut, intr, hist>>

\* lines 639-644: the pool has shut down; except KeyboardInterrupt, finally save
MetaDrainEnd ==
  /\ pc = "drain"
  /\ Pending = {}
  /\ Running = {}
  /\ FinalSave("interrupt")
  /\ UNCHANGED <<fut, intr, hist>>

\* the with block of the CSV file exits: close() flushes the buffer
CloseCsv ==
  /\ pc = "saved"
  /\ csvDisk' = csvDisk \o csvBuf
  /\ csvBuf' = <<>>
  /\ pc' = "done"
  /\ UNCHANGED <<setup, pm, runcfg, files, fut, cur, stats, lastWrite, intr, how,
                 hist>>

(***************************************************************************)
(* analyze_directory of console_analyzer.py.                               *)
(***************************************************************************)
\* os.listdir filtered by f.endswith('.sb3'), sorted
ListSb3(done) ==
  Sorted({n \in Listed(dir) : EndsWith(NameChars(n), DotSb3) /\ n \notin done})

\* lines 109-124: load progress, open the CSV for append, header if new, list
SingleStart ==
  /\ analyzer = "single"
  /\ CanStart
  /\ BeginRun(FALSE)
  /\ processed' = load_progress(progDisk)
  /\ startProgress' = load_progress(progDisk)
  /\ counter' = 0
  /\ fieldnames' = SingleFieldnames
  /\ csvBuf' = IF csvDisk = <<>> THEN <<writeheader(SingleFieldnames)>> ELSE <<>>
  /\ files' = ListSb3({})
  /\ fut' = NoFutures
  /\ num_processes' = 0
  /\ pc' = "s_loop"
  /\ how' = "running"
  /\ UNCHANGED <<setup, csvDisk, progDisk>>

\* lines 125-132 and 137-140: skip a processed file, else analyse it and write
SingleStep ==
  /\ pc = "s_loop"
  /\ files # <<>>
  /\ LET f == Head(files)
         r == analyze_file(KindAttrs(dir[f]))
         row == flatten_metrics(f, r.metrics)
         w == writerow(fieldnames, row)
     IN IF f \in processed
        THEN /\ files' = Tail(files)
             /\ UNCHANGED <<csvBuf, fut, cur, lastWrite, pc>>
        ELSE /\ fut' = [fut EXCEPT ![f] = "consumed"]
             /\ IF r.exc # NoExc
                THEN /\ files' = Tail(files)
                     /\ UNCHANGED <<csvBuf, cur, lastWrite, pc>>
                ELSE /\ lastWrite' = WriteRecord(f, fieldnames, row, w)
                     /\ IF w.raised
                        THEN /\ files' = Tail(files)
                             /\ UNCHANGED <<csvBuf, cur, pc>>
                        ELSE /\ csvBuf' = Append(csvBuf, w.line)
                             /\ cur' = f
                             /\ pc' = "s_wrote"
                             /\ UNCHANGED files
  /\ UNCHANGED <<setup, csvDisk, pm, runcfg, stats, intr, how, hist>>

\* lines 133-134: processed.add(fname); save_progress(progress_path, processed)
SingleMark ==
  /\ pc = "s_wrote"
  /\ processed' = processed \cup {cur}
  /\ progDisk' = save_progress(processed \cup {cur})
  /\ files' = Tail(files)
  /\ pc' = "s_loop"
  /\ UNCHANGED <<setup, csv, counter, runcfg, fut, cur, stats, lastWrite, intr, how,
                 hist>>

\* the loop is over: the with block closes the CSV file, which flushes it
SingleEnd ==
  /\ pc = "s_loop"
  /\ files = <<>>
  /\ csvDisk' = csvDisk \o csvBuf
  /\ csvBuf' = <<>>
  /\ pc' = "done"
  /\ how' = "normal"
  /\ UNCHANGED <<setup, pm, runcfg, files, fut, cur, stats, lastWrite, intr, hist>>

(***************************************************************************)
(* analyze_directory_multiprocess.                                         *)
(***************************************************************************)
\* `if error:` - None and the empty string are falsy
ErrTruthy(e) == e \notin {NoneVal, ""}

\* lines 47-61 (and 89-93 when the CSV exists): load progress, list the
\* pending files; with a non-empty CSV its first line is the schema and the
\* pool starts at once, else the schema is bootstrapped
PoolStart ==
  /\ analyzer = "pool"
  /\ CanStart
  /\ BeginRun(FALSE)
  /\ LET proc == load_progress(progDisk)
         fs == ListSb3(proc)
     IN /\ processed' = proc
        /\ startProgress' = proc
        /\ IF csvDisk # <<>>
           THEN /\ fieldnames' = csvDisk[1].cells
                /\ files' = <<>>
                /\ fut' = Dispatch([n \in Names |->
                             IF n \in SeqToSet(fs) THEN "pending" ELSE "none"],
                             cpu_count)
                /\ pc' = "p_loop"
           ELSE /\ fieldnames' = <<>>
                /\ files' = fs
                /\ fut' = NoFutures
                /\ pc' = "p_boot"
  /\ counter' = 0
  /\ num_processes' = cpu_count
  /\ how' = "running"
  /\ UNCHANGED <<setup, csv, progDisk>>

\* lines 63-76 and 81-85: analyse the next file in the parent; the first
\* success fixes the schema and is written, with the header, to a file that is
\* closed at once
PoolBoot ==
  /\ pc = "p_boot"
  /\ files # <<>>
  /\ LET f == Head(files)
         r == analyze_file(KindAttrs(dir[f]))
         row == flatten_metrics(f, r.metrics)
         fields == DictKeys(row)
         w == writerow(fields, row)
     IN /\ files' = Tail(files)
        /\ fut' = [fut EXCEPT ![f] = "consumed"]
        /\ IF r.exc # NoExc
           THEN UNCHANGED <<csvDisk, fieldnames, cur, lastWrite, pc>>
           ELSE /\ fieldnames' = fields
                /\ csvDisk' = csvDisk \o <<writeheader(fields), w.line>>
                /\ lastWrite' = WriteRecord(f, fields, row, w)
                /\ cur' = f
                /\ pc' = "p_bootwrote"
  /\ UNCHANGED <<setup, csvBuf, pm, ignore_progress, fetch_metadata, num_processes, startProgress,
                 stats, intr, how, hist>>

\* variant for C28: the files the bootstrap has tried stay in the work list
PoolBootMarkAll ==
  /\ pc = "p_bootwrote"
  /\ processed' = processed \cup {cur}
  /\ progDisk' = save_progress(processed \cup {cur})
  /\ fut' = Dispatch([n \in Names |->
               IF n \in SeqToSet(ListSb3(processed)) \ {cur} THEN "pending" ELSE fut[n]],
               num_processes)
  /\ files' = <<>>
  /\ pc' = "p_loop"
  /\ UNCHANGED <<setup, csv, counter, runcfg, cur, stats, lastWrite, intr, how, hist>>

\* lines 77-78, then 89-93: mark the bootstrap file done, save, open the CSV
\* for append and hand the remaining files to the pool
PoolBootMark ==
  /\ pc = "p_bootwrote"
  /\ processed' = processed \cup {cur}
  /\ progDisk' = save_progress(processed \cup {cur})
  /\ fut' = Dispatch([n \in Names |->
               IF n \in SeqToSet(files) THEN "pending" ELSE fut[n]], num_processes)
  /\ files' = <<>>
  /\ pc' = "p_loop"
  /\ UNCHANGED <<setup, csv, counter, runcfg, cur, stats, lastWrite, intr, how, hist>>

\* lines 86-87: no file gave a schema
PoolBootEnd ==
  /\ pc = "p_boot"
  /\ files = <<>>
  /\ pc' = "done"
  /\ how' = "normal"
  /\ UNCHANGED <<setup, csv, pm, runcfg, files, fut, cur, stats, lastWrite, intr,
                 hist>>

\* lines 93-99: imap_unordered yields the result of f; an error is reported and
\* skipped, a row is written; an exception of writerow (a row that is None, a
\* key outside the schema) is not caught: the with blocks terminate the pool
\* and close the CSV, and the run aborts
PoolConsume(f) ==
  /\ pc = "p_loop"
  /\ fut[f] = "done"
  /\ fut' = [fut EXCEPT ![f] = "consumed"]
  /\ LET r == _worker(f, KindAttrs(dir[f]))
         w == writerow(fieldnames, r.row)
     IN IF ErrTruthy(r.error)
        THEN UNCHANGED <<csv, cur, lastWrite, pc, how>>
        ELSE IF r.row = <<>> \/ w.raised
        THEN /\ lastWrite' = IF r.row = <<>> THEN lastWrite
                              ELSE WriteRecord(f, fieldnames, r.row, w)
             /\ csvDisk' = csvDisk \o csvBuf
             /\ csvBuf' = <<>>
             /\ pc' = "done"
             /\ how' = "aborted"
             /\ UNCHANGED cur
        ELSE /\ lastWrite' = WriteRecord(f, fieldnames, r.row, w)
             /\ csvBuf' = Append(csvBuf, w.line)
             /\ cur' = f
             /\ pc' = "p_wrote"
             /\ UNCHANGED <<csvDisk, how>>
  /\ UNCHANGED <<setup, pm, runcfg, files, stats, intr, hist>>

\* lines 100-101: processed.add(fname); save_progress(progress_path, processed)
PoolMark ==
  /\ pc = "p_wrote"
  /\ processed' = processed \cup {cur}
  /\ progDisk' = save_progress(processed \cup {cur})
  /\ pc' = "p_loop"
  /\ UNCHANGED <<setup, csv, counter, runcfg, files, fut, cur, stats, lastWrite,
                 intr, how, hist>>

\* every result consumed: the with blocks close the pool and the CSV file
PoolEnd ==
  /\ pc = "p_loop"
  /\ \A n \in Names : fut[n] \in {"none", "consumed"}
  /\ csvDisk' = csvDisk \o csvBuf
  /\ csvBuf' = <<>>
  /\ pc' = "done"
  /\ how' = "normal"
  /\ UNCHANGED <<setup, pm, runcfg, files, fut, cur, stats, lastWrite, intr, hist>>

\* the process is killed: the CSV buffer and the memory are lost
Crash ==
  /\ pc \notin {"idle", "done"}
  /\ pc' = "idle"
  /\ csvBuf' = <<>>
  /\ processed' = {}
  /\ counter' = 0
  /\ fieldnames' = <<>>
  /\ files' = <<>>
  /\ fut' = NoFutures
  /\ num_processes' = 0
  /\ cur' = ""
  /\ successful' = 0
  /\ failed' = 0
  /\ no_blocks_count' = 0
  /\ startProgress' = {}
  /\ lastWrite' = NoWrite
  /\ intr' = NoIntr
  /\ how' = "killed"
  /\ hist' = [hist EXCEPT !.clean = FALSE,
                        !.cut = @ \/ (analyzer = "meta" /\ ignore_progress
                                                         /\ files # <<>>)]
  /\ UNCHANGED <<setup, csvDisk, progDisk, ignore_progress, fetch_metadata>>

Next ==
  \/ \E ign \in BOOLEAN : MetaStart(ign)
  \/ \E ign \in BOOLEAN, env \in Environments : MetaInvalid(ign, env)
  \/ \E ign \in BOOLEAN : MetaPoolError(ign)
  \/ \E f \in Names : WorkerDone(f)
  \/ \E f \in Names, o \in FetchOutcomes : MetaConsume(f, o)
  \/ MetaAdd
  \/ MetaFlush
  \/ MetaLoopEnd
  \/ MetaInterrupt
  \/ MetaDrainEnd
  \/ CloseCsv
  \/ SingleStart
  \/ SingleStep
  \/ SingleMark
  \/ SingleEnd
  \/ PoolStart
  \/ PoolBoot
  \/ PoolBootMark
  \/ PoolBootEnd
  \/ \E f \in Names : PoolConsume(f)
  \/ PoolMark
  \/ PoolEnd
  \/ Crash

Spec == Init /\ [][Next]_vars

(***************************************************************************)
(* Vocabulary of the properties.                                           *)
(***************************************************************************)
\* the positions of the data rows of project f among lines
DataRows(lines, f) ==
  {i \in 1..Len(lines) : ~lines[i].h /\ lines[i].cells[1] = f}

HasRow(lines, f) == DataRows(lines, f) # {}

RowCount(lines, f) == Cardinality(DataRows(lines, f))

\* the pipeline of the metadata analyzer succeeds on f
Succeeds(f) == _worker_analyze(f, KindAttrs(dir[f])).success

(***************************************************************************)
(* C1.  Crash-safety ordering: for each successful item the row is written *)
(* and flushed before its identifier is added to the progress set.  Stated *)
(* on states: every identifier this run has added to the progress set has  *)
(* its row in the durable part of the CSV file.                            *)
(***************************************************************************)
C1_FlushedBeforeAdd ==
  \A f \in processed \ startProgress : HasRow(csvDisk, f)

(***************************************************************************)
(* C2.  No silently lost row: in every reachable state each identifier in  *)
(* the durable progress file has its row durably in the output file.       *)
(***************************************************************************)
C2_NoSilentlyLostRow ==
  \A f \in SeqToSet(progDisk) : HasRow(csvDisk, f)

(***************************************************************************)
(* C3.  Idempotent resume (metadata analyzer): after two or more runs over *)
(* the same directory, none of them killed or in reprocess mode, the last  *)
(* one complete, the data rows are those of one uninterrupted run: a row   *)
(* for every item whose pipeline succeeds, none for the others, and two    *)
(* rows only for an item on which a run was interrupted between writing    *)
(* its row and adding it to the progress set.                              *)
(***************************************************************************)
C3_IdempotentResume ==
  (/\ analyzer = "meta"
   /\ hist.clean
   /\ hist.runs >= 2
   /\ pc = "done"
   /\ how \in {"normal", "nofiles"})
  => \A f \in Names :
       /\ Succeeds(f) => RowCount(csvDisk, f) >= 1
       /\ ~Succeeds(f) => RowCount(csvDisk, f) = 0
       /\ RowCount(csvDisk, f) > 1 => f \in hist.window

\* a resumed run that ends with the one permitted duplicate
C3_ResumedWithDuplicate ==
  /\ analyzer = "meta"
  /\ hist.clean
  /\ hist.runs = 2
  /\ pc = "done"
  /\ how = "normal"
  /\ startProgress # {}
  /\ \E f \in hist.window : RowCount(csvDisk, f) = 2

(***************************************************************************)
(* C4.  Failure isolation (metadata analyzer).  A file that is missing,    *)
(* zero bytes, oversized, wrongly named or undecodable is unusable.        *)
(***************************************************************************)
Unusable(name, a) ==
  \/ ~a.exists
  \/ a.size = 0
  \/ a.size > SizeCeiling
  \/ ~EndsWith(Lower(NameChars(name)), DotSb3)
  \/ a.content \in {"corrupt", "engine_error", "memory_error", "permission_error"}

UnusableFile(f) == Unusable(f, KindAttrs(dir[f]))

\* the names _worker_analyze is tried on: two of a directory, one that is not
\* a project file, one with an upper-case extension
WorkerNames == {"100.sb3", "abc.sb3", "notes.txt", "7.SB3"}

\* C4: _worker_analyze turns every unusable file into a failure result with
\* an error and no row (tried on all names and attributes, once, in the initial
\* states); in a run an unusable item is counted as failed, is never written
\* or marked done, and a run that ends normally has consumed every submitted
\* item
C4_FailureIsolation ==
  analyzer = "meta" =>
    /\ (pc = "idle" /\ hist.runs = 0) =>
         \A n \in WorkerNames, a \in FileAttrs :
           Unusable(n, a) =>
             LET r == _worker_analyze(n, a)
             IN ~r.success /\ r.error # NoneVal /\ r.row = <<>>
    /\ \A f \in Names :
         UnusableFile(f) =>
           /\ f \notin processed
           /\ f \notin SeqToSet(progDisk)
           /\ ~HasRow(csvDisk \o csvBuf, f)
    /\ failed = Cardinality({f \in Names : fut[f] = "consumed" /\ UnusableFile(f)})
    /\ how = "normal" => \A f \in SeqToSet(files) : fut[f] = "consumed"

\* a run with an unusable item consumed before a usable one was written
C4_FailureThenSuccess ==
  /\ analyzer = "meta"
  /\ pc = "flush"
  /\ failed = 1
  /\ successful = 1
  /\ UnusableFile("100.sb3")
  /\ cur = "abc.sb3"
  /\ cur \in processed

(***************************************************************************)
(* C5.  Skip-already-done: in a run that is not in reprocess mode, no      *)
(* identifier of the progress set loaded at startup is submitted to the    *)
(* pool or analysed, in any of the three analyzers.                        *)
(***************************************************************************)
C5_SkipAlreadyDone ==
  ~ignore_progress => \A f \in startProgress : fut[f] = "none"

\* a resumed run that has analysed a file beside the ones it skips
C5_ResumedRunAnalyses ==
  /\ ~ignore_progress
  /\ startProgress # {}
  /\ \E f \in Names : fut[f] = "consumed"

(***************************************************************************)
(* C6.  Final-state correspondence (metadata analyzer): after a first run  *)
(* that starts with no output file and no progress file and ends normally, *)
(* the output is the header and exactly one data row for each item whose   *)
(* pipeline succeeded, and the progress file holds exactly their names.    *)
(***************************************************************************)
C6_FinalState ==
  (/\ analyzer = "meta"
   /\ hist.runs = 1
   /\ hist.clean
   /\ pc = "done"
   /\ how = "normal")
  => /\ csvBuf = <<>>
     /\ Len(csvDisk) = 1 + Cardinality({f \in Names : Succeeds(f)})
     /\ csvDisk[1] = writeheader(get_fieldnames(fetch_metadata))
     /\ \A f \in Names : RowCount(csvDisk, f) = IF Succeeds(f) THEN 1 ELSE 0
     /\ progDisk = save_progress({f \in Names : Succeeds(f)})

\* the example of the claim: one valid file and one zero-byte file
C6_OneValidOneEmpty ==
  /\ analyzer = "meta"
  /\ hist.runs = 1
  /\ hist.clean
  /\ pc = "done"
  /\ how = "normal"
  /\ dir["100.sb3"] = "zero"
  /\ dir["abc.sb3"] = "blocks"
  /\ Len(csvDisk) = 2
  /\ progDisk = <<"abc.sb3">>

(***************************************************************************)
(* C7.  Schema stability.  As claimed: a row whose key set differs from    *)
(* the schema, by extra keys or by missing keys, is rejected.              *)
(***************************************************************************)
C7_MismatchRejected ==
  lastWrite.name # "" =>
    (lastWrite.missing \cup lastWrite.extra # {} => ~lastWrite.accepted)

\* C7 as amended: every line written during a run has one cell per column
\* of the run's schema; a row with a key outside the schema is rejected and
\* not written, and only such a row; a row that lacks keys of the schema is
\* written, with empty cells in the columns it lacks
C7_SchemaStable ==
  /\ \A i \in 1..Len(csvBuf) : Len(csvBuf[i].cells) = Len(fieldnames)
  /\ lastWrite.name # "" =>
       /\ lastWrite.schema = fieldnames
       /\ lastWrite.accepted <=> lastWrite.extra = {}
       /\ lastWrite.accepted =>
            /\ Len(lastWrite.cells) = Len(fieldnames)
            /\ \A i \in 1..Len(fieldnames) :
                 fieldnames[i] \in lastWrite.missing => lastWrite.cells[i] = ""
            /\ lastWrite.cells[1] = lastWrite.name

\* a row that lacks a key of the schema has been written
C7_PaddedRowWritten ==
  /\ lastWrite.name # ""
  /\ lastWrite.accepted
  /\ lastWrite.missing # {}
  /\ HasRow(csvBuf, lastWrite.name)

(***************************************************************************)
(* C9.  Interrupt handling.  As claimed: when the run finalizes after an   *)
(* interrupt, the outcome of every invocation that was running when the    *)
(* interrupt arrived has been written and marked done.                     *)
(***************************************************************************)
C9_RunningOutcomesWritten ==
  (analyzer = "meta" /\ how = "interrupt" /\ pc = "done")
  => \A f \in intr.running :
       Succeeds(f) => f \in processed /\ HasRow(csvDisk, f)

\* C9 as amended: after the interrupt the run waits until no submitted
\* invocation is pending or running, but it consumes no further outcome: no
\* row is written and no identifier is marked done after the interrupt; the
\* progress set is then saved and the rows written before the interrupt are
\* all in the file, each with one cell per column, when the run has ended
C9_InterruptDiscards ==
  (analyzer = "meta" /\ (pc = "drain" \/ how = "interrupt"))
  => /\ Len(csvDisk) + Len(csvBuf) = intr.rows
     /\ processed = intr.processed
     /\ \A f \in intr.unconsumed : fut[f] # "consumed" /\ f \notin processed
     /\ \A i \in 1..Len(csvBuf) : Len(csvBuf[i].cells) = Len(fieldnames)
     /\ how = "interrupt" =>
          /\ \A f \in Names : fut[f] \notin {"pending", "running"}
          /\ load_progress(progDisk) = processed
     /\ pc = "done" => csvBuf = <<>> /\ Len(csvDisk) = intr.rows

\* a run has ended after an interrupt with the outcome of an invocation
\* that was running then, and succeeded, left unwritten
C9_FinishedButDiscarded ==
  /\ analyzer = "meta"
  /\ how = "interrupt"
  /\ pc = "done"
  /\ \E f \in intr.running :
       Succeeds(f) /\ fut[f] = "done" /\ f \notin processed /\ ~HasRow(csvDisk, f)

(***************************************************************************)
(* C10.  Flush at shutdown (metadata analyzer): however the dispatch phase *)
(* ends - every outcome consumed, KeyboardInterrupt, an exception of the   *)
(* pool - ProgressManager.save has run when the function returns: the      *)
(* progress file equals the in-memory progress set.                        *)
(***************************************************************************)
C10_SavedAtReturn ==
  (/\ analyzer = "meta"
   /\ pc \in {"saved", "done"}
   /\ how \in {"normal", "interrupt", "poolerror"})
  => load_progress(progDisk) = processed /\ counter = 0

\* the dispatch phase ended by an interrupt after an item was marked done
C10_SavedAfterInterrupt ==
  /\ analyzer = "meta"
  /\ pc = "saved"
  /\ how = "interrupt"
  /\ processed # startProgress
  /\ load_progress(progDisk) = processed

(***************************************************************************)
(* ProgressManager on its own: a manager built with any save_interval over *)
(* a progress file, then any sequence of add and save calls.  The other    *)
(* variables stay as RunParked leaves them.                                *)
(***************************************************************************)
RunParked ==
  /\ dir = [n \in Names |-> "blocks"]
  /\ fetch_metadata = FALSE
  /\ cpu_count = 1
  /\ csvDisk = <<>>
  /\ csvBuf = <<>>
  /\ fieldnames = <<>>
  /\ files = <<>>
  /\ fut = NoFutures
  /\ num_processes = 0
  /\ cur = ""
  /\ successful = 0
  /\ failed = 0
  /\ no_blocks_count = 0
  /\ lastWrite = NoWrite
  /\ intr = NoIntr
  /\ hist = [runs |-> 0, clean |-> TRUE, window |-> {}, base |-> 0, cut |-> FALSE]

\* the identifiers the manager is given
PMIds == SeqToSet(AllNames)

\* ProgressManager(progress_path, save_interval, ignore_progress)
InitPM ==
  /\ analyzer = "ProgressManager"
  /\ RunParked
  /\ FetchParked
  /\ HarnessParked
  /\ save_interval \in 1..MaxInterval
  /\ progDisk \in {<<>>, <<"100.sb3">>}
  /\ ignore_progress \in BOOLEAN
  /\ processed = pm_init(ignore_progress)
  /\ startProgress = pm_init(ignore_progress)
  /\ counter = 0
  /\ pc = "pm"
  /\ how = "init"

\* progress_manager.add(f)
PMAdd(f) ==
  /\ pc = "pm"
  /\ LET a == pm_add(f)
     IN /\ processed' = a.processed
        /\ counter' = a.counter
        /\ progDisk' = a.disk
  /\ how' = IF f \in processed THEN "add_present" ELSE "add_new"
  /\ UNCHANGED <<setup, csv, pc, runcfg, files, fut, cur, stats, lastWrite, intr, hist>>

\* progress_manager.save()
PMSave ==
  /\ pc = "pm"
  /\ progDisk' = pm_save.disk
  /\ counter' = pm_save.counter
  /\ how' = "save"
  /\ UNCHANGED <<setup, csv, processed, pc, runcfg, files, fut, cur, stats, lastWrite,
                 intr, hist>>

NextPM ==
  \/ \E f \in PMIds : PMAdd(f)
  \/ PMSave

SpecPM == InitPM /\ [][NextPM]_vars

\* the identifiers added since the manager was built that the file lacks
Unflushed == (processed \ startProgress) \ load_progress(progDisk)

C11_Bounded ==
  /\ 0 <= counter
  /\ counter < save_interval
  /\ Cardinality(Unflushed) < save_interval

(***************************************************************************)
(* C11.  Bounded unflushed progress: with save_interval K >= 1, after any  *)
(* sequence of add and save calls 0 <= counter < K and fewer than K of the *)
(* identifiers added are missing from the file; adding an identifier that  *)
(* is present changes nothing; whenever the file is written it becomes a   *)
(* snapshot of the whole in-memory set.                                    *)
(***************************************************************************)
C11_BoundedUnflushed ==
  /\ C11_Bounded
  /\ [][/\ C11_Bounded'
        /\ how' = "add_present" => UNCHANGED <<processed, counter, progDisk>>
        /\ (how' = "save" \/ progDisk' # progDisk) =>
             load_progress(progDisk') = processed']_vars

\* add has saved on the second addition and a third identifier is unflushed
C11_SavedThenOneUnflushed ==
  /\ analyzer = "ProgressManager"
  /\ save_interval = 2
  /\ counter = 1
  /\ startProgress = {}
  /\ Cardinality(processed) = 3
  /\ Len(progDisk) = 2
  /\ Cardinality(Unflushed) = 1

\* the pipeline of the Pool analyzer raises on f
PoolFails(f) == _worker(f, KindAttrs(dir[f])).error # NoneVal

(***************************************************************************)
(* C12.  Exhaustive consumption: in a master-worker run that is not        *)
(* cancelled, every submitted item yields exactly one outcome, consumed    *)
(* exactly once: when the run has ended each submitted item has been       *)
(* consumed and is either written as one row or reported as one failure.   *)
(***************************************************************************)
C12_EveryOutcomeConsumed ==
  (/\ analyzer \in {"meta", "pool"}
   /\ pc = "done"
   /\ how \in {"normal", "aborted"}
   /\ hist.runs = 1) =>
    \A f \in Names :
      fut[f] # "none" =>
        /\ fut[f] = "consumed"
        /\ IF analyzer = "meta"
           THEN (RowCount(csvDisk, f) = 1) # ~Succeeds(f)
           ELSE (RowCount(csvDisk, f) = 1) # PoolFails(f)

(***************************************************************************)
(* C13.  Concurrency bound: never more than `concurrency` invocations of   *)
(* the analysis pipeline run at once; in the metadata analyzer with no     *)
(* process count given the concurrency is the smallest of the CPU count,   *)
(* the number of pending files and 8, and so lies between 1 and 8.         *)
(***************************************************************************)
C13_ConcurrencyBound ==
  /\ pc \in PoolAlive => Cardinality(Running) <= num_processes
  /\ (analyzer = "meta" /\ pc \in PoolAlive) =>
       /\ num_processes = default_num_processes(cpu_count, Len(files))
       /\ num_processes \in 1..MaxPoolCap
  /\ (pc = "idle" /\ hist.runs = 0) =>
       \A c \in 1..2 * MaxPoolCap, n \in 1..2 * MaxPoolCap :
         LET d == default_num_processes(c, n)
         IN /\ d \in {c, n, MaxPoolCap}
            /\ d <= c
            /\ d <= n
            /\ d \in 1..MaxPoolCap

\* one process, one item running and another waiting for it
C13_OneRunningOneWaiting ==
  /\ analyzer = "meta"
  /\ pc = "loop"
  /\ num_processes = 1
  /\ Cardinality(Running) = 1
  /\ Pending # {}

(***************************************************************************)
(* One success result in the consumption loop, the call of                 *)
(* fetch_project_metadata taken attempt by attempt; and the same call in   *)
(* extract_scratch_meta's worker.                                          *)
(***************************************************************************)
FetchItems == {"100.sb3", "000.sb3", "abc.sb3"}

\* the result whose row is being enriched
FetchResult == _worker_analyze(cur, KindAttrs("blocks"))

InitFetch ==
  /\ analyzer \in FetchImpls
  /\ dir = [n \in Names |-> "blocks"]
  /\ fetch_metadata = TRUE
  /\ save_interval = DefaultSaveInterval
  /\ cpu_count = 1
  /\ retries \in 0..MaxRetries
  /\ service \in [1..MaxRetries + 1 -> Responses]
  /\ requests_module \in (IF analyzer = "extract_scratch_meta" THEN {TRUE} ELSE BOOLEAN)
  /\ call = NoCall
  /\ HarnessParked
  /\ cur \in FetchItems
  /\ csvDisk = <<>>
  /\ progDisk = <<>>
  /\ csvBuf = <<writeheader(get_fieldnames(TRUE))>>
  /\ fieldnames = get_fieldnames(TRUE)
  /\ pc = "f_start"
  /\ ignore_progress = FALSE
  /\ processed = {}
  /\ counter = 0
  /\ files = <<>>
  /\ fut = NoFutures
  /\ num_processes = 1
  /\ successful = 0
  /\ failed = 0
  /\ no_blocks_count = 0
  /\ startProgress = {}
  /\ lastWrite = NoWrite
  /\ intr = NoIntr
  /\ how = "running"
  /\ hist = [runs |-> 0, clean |-> TRUE, window |-> {}, base |-> 0, cut |-> FALSE]

\* lines 601-617 (pid = ...; if pid:) and 316-326 (if requests is None);
\* extract_scratch_meta.py lines 92-109 (if pid is None)
FetchCall ==
  /\ pc = "f_start"
  /\ LET pid == get_project_id_from_filename(cur)
     IN IF analyzer = "extract_scratch_meta"
        THEN /\ pc' = IF pid.isNone THEN "f_returned" ELSE "f_request"
             /\ UNCHANGED call
        ELSE IF ~Truthy(pid)
        THEN /\ call' = [call EXCEPT !.meta = NoIdMetadata]
             /\ pc' = "f_returned"
        ELSE IF ~requests_module
        THEN /\ call' = [call EXCEPT !.meta = RequestsUnavailable(pid.val)]
             /\ pc' = "f_returned"
        ELSE /\ pc' = "f_request"
             /\ UNCHANGED call
  /\ UNCHANGED <<config, csv, pm, runcfg, files, fut, cur, stats, lastWrite, intr, how,
                 hist>>

\* one pass of the loop body: requests.get, the status check, r.json(), and
\* either the return of the record or the except clause
FetchAttempt ==
  /\ pc = "f_request"
  /\ LET r == service[call.attempt + 1]
         pid == get_project_id_from_filename(cur).val
         sent == [call EXCEPT !.trace = Append(@, "request")]
     IN IF r = "ok"
        THEN /\ call' = [sent EXCEPT !.meta = on_success(analyzer, pid)]
             /\ pc' = "f_returned"
        ELSE IF after_failure(call.attempt, retries) = "sleep"
        THEN /\ call' = [sent EXCEPT !.last_err = ErrText(r)]
             /\ pc' = "f_sleep"
        ELSE /\ call' = [sent EXCEPT !.last_err = ErrText(r),
                                     !.meta = on_exhausted(analyzer, pid, ErrText(r)).meta,
                                     !.raised = on_exhausted(analyzer, pid, ErrText(r)).raised]
             /\ pc' = "f_returned"
  /\ UNCHANGED <<config, csv, pm, runcfg, files, fut, cur, stats, lastWrite, intr, how,
                 hist>>

\* time.sleep(sleep_between), then the next value of attempt, if range has one
FetchSleep ==
  /\ pc = "f_sleep"
  /\ LET pid == get_project_id_from_filename(cur).val
         slept == [call EXCEPT !.trace = Append(@, "sleep"), !.attempt = @ + 1]
     IN IF call.attempt + 1 <= retries
        THEN /\ call' = slept
             /\ pc' = "f_request"
        ELSE /\ call' = [slept EXCEPT
                           !.meta = on_exhausted(analyzer, pid, call.last_err).meta,
                           !.raised = on_exhausted(analyzer, pid, call.last_err).raised]
             /\ pc' = "f_returned"
  /\ UNCHANGED <<config, csv, pm, runcfg, files, fut, cur, stats, lastWrite, intr, how,
                 hist>>

\* lines 608-619 and 629-631: row.update(meta); writer.writerow(row); an
\* exception of either is caught and counted as a failure
CoordinatorWrite ==
  /\ pc = "f_returned"
  /\ analyzer = "console_analyzer_with_metadata"
  /\ LET row == EnrichWith(FetchResult, call.meta)
         w == writerow(fieldnames, row)
     IN IF call.raised \/ w.raised
        THEN /\ failed' = failed + 1
             /\ pc' = "f_done"
             /\ UNCHANGED <<csvBuf, lastWrite>>
        ELSE /\ csvBuf' = Append(csvBuf, w.line)
             /\ lastWrite' = WriteRecord(cur, fieldnames, row, w)
             /\ pc' = "f_wrote"
             /\ UNCHANGED failed
  /\ UNCHANGED <<setup, csvDisk, pm, runcfg, files, fut, cur, successful,
                 no_blocks_count, intr, how, hist>>

\* lines 620-621: progress_manager.add(result.filename); successful += 1
CoordinatorMark ==
  /\ pc = "f_wrote"
  /\ LET a == pm_add(cur)
     IN /\ processed' = a.processed
        /\ counter' = a.counter
        /\ progDisk' = a.disk
  /\ successful' = successful + 1
  /\ pc' = "f_done"
  /\ UNCHANGED <<setup, csv, runcfg, files, fut, cur, failed, no_blocks_count,
                 lastWrite, intr, how, hist>>

\* extract_scratch_meta.py lines 105-113: the worker returns its row
ExtractWorkerReturn ==
  /\ pc = "f_returned"
  /\ analyzer = "extract_scratch_meta"
  /\ call' = [call EXCEPT !.meta = ExtractRow(cur, get_project_id_from_filename(cur), call)]
  /\ pc' = "f_done"
  /\ UNCHANGED <<config, csv, pm, runcfg, files, fut, cur, stats, lastWrite, intr, how,
                 hist>>

NextFetch ==
  \/ FetchCall
  \/ FetchAttempt
  \/ FetchSleep
  \/ CoordinatorWrite
  \/ CoordinatorMark
  \/ ExtractWorkerReturn

SpecFetch == InitFetch /\ [][NextFetch]_vars

\* the requests of the call so far, and its sleeps
Requests == {i \in 1..Len(call.trace) : call.trace[i] = "request"}

Sleeps == {i \in 1..Len(call.trace) : call.trace[i] = "sleep"}

\* the call has come back to its caller
Returned == pc \in {"f_returned", "f_wrote", "f_done"}

\* the call goes to the network: an id the caller accepts, requests at hand
Fetches ==
  LET pid == get_project_id_from_filename(cur)
  IN IF analyzer = "extract_scratch_meta" THEN ~pid.isNone
     ELSE Truthy(pid) /\ requests_module

\* the first R+1 answers of the service
Budget == 1..retries + 1

MetaKeysNull(d) ==
  \A k \in {"Project title", "Author", "Creation date", "Modified date",
            "Remix parent id", "Remix root id"} : DictGet(d, k) = NoneVal

(***************************************************************************)
(* C14.  Bounded retry, degrading to an error-tagged success: with budget  *)
(* R, the metadata analyzer's fetch returns a populated record with a null *)
(* error marker if any of the first R+1 attempts succeeds (also when only  *)
(* the last does); if all fail it returns, without raising, a record whose *)
(* title, author, dates and remix ids are null and whose error marker is   *)
(* not; the item is still written as a success row and marked done.        *)
(***************************************************************************)
C14_RetryDegrades ==
  (analyzer = "console_analyzer_with_metadata" /\ Fetches /\ Returned) =>
    /\ ~call.raised
    /\ (\E i \in Budget : service[i] = "ok") =>
         /\ DictGet(call.meta, "_meta_error") = NoneVal
         /\ DictGet(call.meta, "Project title") # NoneVal
         /\ DictGet(call.meta, "Author") # NoneVal
         /\ DictGet(call.meta, "project_id") = "100"
    /\ (\A i \in Budget : service[i] # "ok") =>
         /\ MetaKeysNull(call.meta)
         /\ DictGet(call.meta, "_meta_error") # NoneVal
    /\ pc = "f_done" =>
         /\ lastWrite.accepted
         /\ RowCount(csvBuf, cur) = 1
         /\ cur \in processed
         /\ successful = 1
         /\ failed = 0

\* every attempt of a budget of two retries failed; the row is written
C14_AllFailedRowWritten ==
  /\ analyzer = "console_analyzer_with_metadata"
  /\ pc = "f_done"
  /\ retries = 2
  /\ Cardinality(Requests) = 3
  /\ DictGet(call.meta, "_meta_error") = "HTTP 404"
  /\ cur \in processed
  /\ RowCount(csvBuf, cur) = 1

(***************************************************************************)
(* C15.  Retry protocol: one call issues at most maxRetries+1 requests,    *)
(* none after the first successful one, and waits exactly once between two *)
(* consecutive attempts and never after the final attempt.                 *)
(***************************************************************************)
C15_RetryProtocol ==
  (analyzer \in FetchImpls) =>
    /\ Cardinality(Requests) <= retries + 1
    /\ \A i \in Requests : service[Cardinality({j \in Requests : j <= i})] = "ok" =>
         i = Len(call.trace) /\ Returned
    /\ \A i \in 1..Len(call.trace) :
         call.trace[i] = (IF i % 2 = 1 THEN "request" ELSE "sleep")
    /\ Returned /\ call.trace # <<>> =>
         /\ call.trace[Len(call.trace)] = "request"
         /\ Cardinality(Sleeps) = Cardinality(Requests) - 1
    /\ Returned /\ Fetches =>
         \/ service[Cardinality(Requests)] = "ok"
         \/ Cardinality(Requests) = retries + 1
    /\ ~Fetches => call.trace = <<>>

\* the second attempt succeeded: one sleep, no third request
C15_SecondAttemptSucceeds ==
  /\ analyzer \in FetchImpls
  /\ Returned
  /\ retries = 2
  /\ call.trace = <<"request", "sleep", "request">>
  /\ service[2] = "ok"

\* the score columns of a row, and those of them the empty metrics leave at 0
ZeroColumns ==
  {"total_blocks", "mastery_total_points", "duplicateScripts", "deadCode",
   "spriteNaming", "backdropNaming"} \cup SkillSet

MetricColumns == ZeroColumns \cup {"mastery_total_max", "babia_num_sprites"}

\* the cell of column k in the row of a write record
CellOf(wr, k) == wr.cells[CHOOSE i \in 1..Len(wr.schema) : wr.schema[i] = k]

\* a decodable project without blocks, of a size the worker accepts
NoBlocksAttrs ==
  {a \in FileAttrs : /\ a.exists
                     /\ a.size > 0
                     /\ a.size <= SizeCeiling
                     /\ a.content \in {"noblocks", "noblocks_babia_raises"}}

\* the last row written is that of a project without blocks
NoBlocksWritten ==
  /\ analyzer = "meta"
  /\ lastWrite.name # ""
  /\ dir[lastWrite.name] = "noblocks"

(***************************************************************************)
(* C16 as the specification has it.  A decodable project with zero blocks  *)
(* yields a row in which every metric field is zero.                       *)
(***************************************************************************)
C16_AllMetricsZero ==
  NoBlocksWritten => \A k \in MetricColumns : CellOf(lastWrite, k) = "0"

(***************************************************************************)
(* C16, amended.  A decodable project with zero blocks yields a success    *)
(* with has_blocks false and a row whose score fields are zero and whose   *)
(* competence is 'Basic', except that mastery_total_max is the sum of the  *)
(* skill maxima and babia_num_sprites is the count the sprite-statistics   *)
(* collaborator reports, zero when it raises; the row is written, the item *)
(* marked done and counted as a success and in the no-blocks tally, never  *)
(* as a failure.                                                           *)
(***************************************************************************)
C16_NoBlocksIsSuccess ==
  /\ (pc = "idle" /\ hist.runs = 0) =>
       \A name \in {"100.sb3", "abc.sb3"}, a \in NoBlocksAttrs :
         LET r == _worker_analyze(name, a)
         IN /\ r.success
            /\ ~r.has_blocks
            /\ \A k \in ZeroColumns : DictGet(r.row, k) = "0"
            /\ DictGet(r.row, "mastery_competence") = "Basic"
            /\ DictGet(r.row, "mastery_total_max") = SumSkillPoints
            /\ DictGet(r.row, "babia_num_sprites") =
                 (IF a.content = "noblocks_babia_raises" THEN "0"
                  ELSE EngineMetrics(a.content).babia)
  /\ NoBlocksWritten =>
       /\ lastWrite.accepted
       /\ CellOf(lastWrite, "has_blocks") = "False"
       /\ \A k \in ZeroColumns : CellOf(lastWrite, k) = "0"
       /\ CellOf(lastWrite, "mastery_competence") = "Basic"
       /\ HasRow(csvDisk \o csvBuf, lastWrite.name)
  /\ analyzer = "meta" =>
       /\ successful = Cardinality(processed \ startProgress)
       /\ no_blocks_count =
            Cardinality({f \in processed \ startProgress : dir[f] = "noblocks"})
       /\ failed = Cardinality({f \in Names : fut[f] = "consumed" /\ ~Succeeds(f)})
       /\ \A f \in Names :
            (dir[f] = "noblocks" /\ fut[f] = "consumed" /\ pc \in {"flush", "loop", "saved", "done"}
             /\ how \in {"running", "normal"}) => f \in processed

\* a run has written, marked and counted a project without blocks
C16_NoBlocksCounted ==
  /\ NoBlocksWritten
  /\ pc = "done"
  /\ how = "normal"
  /\ no_blocks_count = 1
  /\ successful = 1
  /\ lastWrite.name \in processed
  /\ HasRow(csvDisk, lastWrite.name)

(***************************************************************************)
(* Loading a progress file of any content: load_progress of                *)
(* console_analyzer.py and ProgressManager._load_progress.  A JSON value   *)
(* is a record of its type t, its text s (strings, numbers) and its items  *)
(* (the elements of an array, the keys of an object).                      *)
(***************************************************************************)
JStr(x) == [t |-> "string", s |-> x, items |-> <<>>]

JNum(x) == [t |-> "number", s |-> x, items |-> <<>>]

JNull == [t |-> "null", s |-> "null", items |-> <<>>]

JArr(xs) == [t |-> "array", s |-> "", items |-> xs]

JObj(keys) == [t |-> "object", s |-> "", items |-> keys]

\* what an array of the progress file may hold
JItems == {JStr("100.sb3"), JStr("abc.sb3"), JNum("5"), JNull, JArr(<<JStr("100.sb3")>>)}

JArrays == {JArr(xs) : xs \in UNION {[1..n -> JItems] : n \in 0..MaxItems}}

\* the progress file: absent, bytes that are not UTF-8, text that is not
\* JSON, or a JSON value
ProgressFiles ==
  {[state |-> st, value |-> JNull] : st \in {"absent", "not_utf8", "not_json"}}
  \cup {[state |-> "json", value |-> v] :
          v \in JArrays \cup {JNum("5"), JNull, JStr("ab"), JObj(<<JStr("a")>>)}}

\* the characters of the strings above
Chars(x) == IF x = "ab" THEN {"a", "b"} ELSE {x}

\* json.load(fh)
json_load(file) ==
  CASE file.state = "not_utf8" -> [raised |-> "UnicodeDecodeError", value |-> JNull]
    [] file.state = "not_json" -> [raised |-> "JSONDecodeError", value |-> JNull]
    [] OTHER -> [raised |-> NoExc, value |-> file.value]

\* set(value): the elements of an array, the characters of a string, the
\* keys of an object; TypeError on a value that is not iterable or on an
\* element that is not hashable
py_set(v) ==
  CASE v.t = "array" ->
         IF \E i \in 1..Len(v.items) : v.items[i].t \in {"array", "object"}
         THEN [raised |-> "TypeError", set |-> {}]
         ELSE [raised |-> NoExc, set |-> SeqToSet(v.items)]
    [] v.t = "object" -> [raised |-> NoExc, set |-> SeqToSet(v.items)]
    [] v.t = "string" -> [raised |-> NoExc, set |-> {JStr(c) : c \in Chars(v.s)}]
    [] OTHER -> [raised |-> "TypeError", set |-> {}]

\* set(json.load(fh))
set_json_load(file) ==
  IF json_load(file).raised # NoExc
  THEN [raised |-> json_load(file).raised, set |-> {}]
  ELSE py_set(json_load(file).value)

\* load_progress of console_analyzer.py: except json.JSONDecodeError
load_progress_file(file) ==
  IF file.state = "absent" THEN [raised |-> NoExc, set |-> {}]
  ELSE IF set_json_load(file).raised = "JSONDecodeError"
  THEN [raised |-> NoExc, set |-> {}]
  ELSE set_json_load(file)

\* ProgressManager._load_progress: except (json.JSONDecodeError, Exception)
_load_progress(file) ==
  IF file.state = "absent" THEN [raised |-> NoExc, set |-> {}]
  ELSE IF set_json_load(file).raised # NoExc
  THEN [raised |-> NoExc, set |-> {}]
  ELSE set_json_load(file)

Loaders == {"load_progress", "ProgressManager._load_progress"}

\* in this specification progDisk is the file as ProgressFiles has it and
\* processed the set of JSON values the call returns
InitLoad ==
  /\ analyzer \in Loaders
  /\ RunParked
  /\ FetchParked
  /\ HarnessParked
  /\ save_interval = DefaultSaveInterval
  /\ progDisk \in ProgressFiles
  /\ ignore_progress = FALSE
  /\ processed = {}
  /\ startProgress = {}
  /\ counter = 0
  /\ pc = "l_start"
  /\ how = "running"

\* processed = load_progress(progress_path)
Load ==
  /\ pc = "l_start"
  /\ LET r == IF analyzer = "load_progress" THEN load_progress_file(progDisk)
              ELSE _load_progress(progDisk)
     IN /\ processed' = r.set
        /\ how' = IF r.raised = NoExc THEN "returned" ELSE r.raised
  /\ pc' = "l_done"
  /\ UNCHANGED <<setup, csv, counter, progDisk, runcfg, files, fut, cur, stats,
                 lastWrite, intr, hist>>

NextLoad == Load

SpecLoad == InitLoad /\ [][NextLoad]_vars

\* the file holds what save writes: a JSON array of strings
ArrayOfStrings(file) ==
  /\ file.state = "json"
  /\ file.value.t = "array"
  /\ \A i \in 1..Len(file.value.items) : file.value.items[i].t = "string"

(***************************************************************************)
(* C17.  Corrupt or absent progress is empty progress: for every content   *)
(* of the progress file both loaders return a set without raising, and     *)
(* the empty set whenever the file is absent or is not a JSON array of     *)
(* strings.  Stated for the contents the claim lists: an absent file, text *)
(* that is not JSON, and every JSON value.                                 *)
(***************************************************************************)
C17_LoadNeverRaises ==
  (analyzer \in Loaders /\ pc = "l_done" /\ progDisk.state # "not_utf8") =>
    /\ how = "returned"
    /\ ~ArrayOfStrings(progDisk) => processed = {}

\* a run of the metadata analyzer in reprocess mode that passed validation
ReprocessRun ==
  /\ analyzer = "meta"
  /\ ignore_progress
  /\ pc # "idle"
  /\ how \in {"running", "normal", "interrupt", "poolerror", "nofiles"}

\* the .sb3 files the directory lists
SbFiles == {n \in Listed(dir) : Lower(Suffix(NameChars(n))) = DotSb3}

\* the output, buffer included, is one header and then data rows of items
\* this run has consumed, at most one each
OnlyRowsOfThisRun ==
  LET out == csvDisk \o csvBuf
  IN /\ out # <<>>
     /\ out[1] = writeheader(get_fieldnames(fetch_metadata))
     /\ \A i \in 2..Len(out) :
          /\ ~out[i].h
          /\ out[i].cells[1] \in Names
          /\ fut[out[i].cells[1]] = "consumed"
     /\ \A f \in Names : RowCount(out, f) <= 1

C19_AbortBeforeSideEffects ==
  [][(how' = "invalid" /\ hist'.runs # hist.runs) =>
       /\ csvDisk' = csvDisk
       /\ csvBuf' = csvBuf
       /\ progDisk' = progDisk
       /\ processed' = {}
       /\ files' = <<>>
       /\ fut' = NoFutures]_vars

\* a run has failed validation beside the files an earlier run has written
C19_InvalidAfterRun ==
  /\ how = "invalid"
  /\ pc = "done"
  /\ hist.runs = 2
  /\ Len(csvDisk) > 1
  /\ progDisk # <<>>
  /\ processed = {}

(***************************************************************************)
(* C20.  Exit status of the metadata analyzer: 0 on normal completion,     *)
(* also with failed items, and not 0 when the run ends on a fatal          *)
(* configuration failure (missing input directory, unwritable output).     *)
(***************************************************************************)
C20_ExitStatus ==
  (analyzer = "meta" /\ pc = "done") =>
    /\ how = "normal" => exit_status(how) = 0
    /\ how = "invalid" => exit_status(how) # 0

\* the lines the current run has put into the output, buffer included: those
\* after the lines it found, or all of them when it has truncated the file
RunBase ==
  IF analyzer = "meta" /\ ignore_progress /\ files # <<>> THEN 0 ELSE hist.base

RunLines ==
  LET out == csvDisk \o csvBuf
  IN SubSeq(out, RunBase + 1, Len(out))

\* the data rows among them, as a set, and the positions of those of project f
RowsOfRun == {RunLines[i].cells : i \in {j \in 1..Len(RunLines) : ~RunLines[j].h}}

RunRowCount(f) == Cardinality(DataRows(RunLines, f))

\* the rows the pipeline result of f can become in the metadata analyzer (one
\* for each answer of the metadata service) and in the Pool analyzer
MetaRowsOf(f) ==
  {writerow(get_fieldnames(fetch_metadata),
            EnrichedRow(_worker_analyze(f, KindAttrs(dir[f])), fetch_metadata, o)).line.cells :
     o \in FetchOutcomes}

PoolRowOf(f) == writerow(csvDisk[1].cells, _worker(f, KindAttrs(dir[f])).row).line.cells

\* the items whose rows a complete run writes: the listed .sb3 files outside
\* the progress set the run started with, on which the pipeline succeeds
MetaDue == {f \in SbFiles \ startProgress : Succeeds(f)}

PoolDue ==
  {f \in Listed(dir) \ startProgress :
     EndsWith(NameChars(f), DotSb3) /\ ~PoolFails(f)}

(***************************************************************************)
(* C21.  Row-set determinism under interleaving: for a fixed directory,    *)
(* fixed pipeline results and a fixed initial progress set, the set of     *)
(* rows a complete run writes does not depend on the order in which the    *)
(* workers finish: it is one row, fixed by the item's result, for each     *)
(* item that is due.                                                       *)
(***************************************************************************)
C21_RowSetDeterminism ==
  (analyzer \in {"meta", "pool"} /\ pc = "done" /\ how = "normal") =>
    IF analyzer = "meta"
    THEN /\ \A f \in Names : RunRowCount(f) = IF f \in MetaDue THEN 1 ELSE 0
         /\ \A f \in MetaDue : \E r \in MetaRowsOf(f) : r \in RowsOfRun
         /\ Cardinality(RowsOfRun) = Cardinality(MetaDue)
    ELSE /\ \A f \in Names : RunRowCount(f) = IF f \in PoolDue THEN 1 ELSE 0
         /\ \A f \in PoolDue : PoolRowOf(f) \in RowsOfRun
         /\ Cardinality(RowsOfRun) = Cardinality(PoolDue)

\* two workers ran side by side and the second file's row was written first
C21_RowsOutOfSubmissionOrder ==
  /\ analyzer = "meta"
  /\ pc = "done"
  /\ how = "normal"
  /\ num_processes = 2
  /\ Len(RunLines) = 3
  /\ RunLines[2].cells[1] = "abc.sb3"
  /\ RunLines[3].cells[1] = "100.sb3"

(***************************************************************************)
(* C22.  Enrichment runs inside the worker: the metadata fetch of an item  *)
(* is made by the execution unit that computed its metrics, so the         *)
(* coordinator, between consuming two outcomes, is never at a request to   *)
(* the metadata service nor in the wait between two attempts.              *)
(***************************************************************************)
C22_CoordinatorNeverFetches ==
  analyzer = "console_analyzer_with_metadata" => pc \notin {"f_request", "f_sleep"}

(***************************************************************************)
(* C23.  Enrichment dispatch on identifier presence: for a successful item *)
(* whose name holds a run of at least 3 digits the metadata client is      *)
(* called with the integer value of the first such run, also when that     *)
(* value is 0, and its fields are merged into the row; only a name without *)
(* such a run gets the nulls and the marker 'No project ID in filename'.   *)
(***************************************************************************)
C23_DispatchOnIdPresence ==
  (analyzer = "console_analyzer_with_metadata" /\ requests_module /\ pc = "f_done") =>
    LET pid == get_project_id_from_filename(cur)
    IN IF pid.isNone
       THEN /\ call.trace = <<>>
            /\ CellOf(lastWrite, "_meta_error") = "No project ID in filename"
            /\ CellOf(lastWrite, "project_id") = ""
       ELSE /\ call.trace # <<>>
            /\ CellOf(lastWrite, "project_id") = ToString(pid.val)
            /\ CellOf(lastWrite, "_meta_error") # "No project ID in filename"

(***************************************************************************)
(* One call of _worker_analyze on a file of any name, size and content.    *)
(* worker_call holds the call; the variables of a run stay parked.         *)
(***************************************************************************)
\* the errors of the returns that precede the call of analyze_file_safe
ValidationErrors ==
  {"File not found", "Empty file", "File too large (>100MB)", "Invalid file extension"}

InitWorker ==
  /\ analyzer = "_worker_analyze"
  /\ RunParked
  /\ FetchParked
  /\ save_interval = DefaultSaveInterval
  /\ progDisk = <<>>
  /\ ignore_progress = FALSE
  /\ processed = {}
  /\ startProgress = {}
  /\ counter = 0
  /\ pc = "w_start"
  /\ how = "running"
  /\ submission = NoSubmission
  /\ extract = NoExtract
  /\ \E n \in WorkerNames, a \in FileAttrs :
       worker_call = [fname |-> n, attrs |-> a, result |-> <<>>, opened |-> FALSE]

\* result = _worker_analyze(input_dir, fname): the archive is opened by
\* analyze_file_safe, which the four validation returns come before
WorkerCall ==
  /\ pc = "w_start"
  /\ LET r == _worker_analyze(worker_call.fname, worker_call.attrs)
     IN worker_call' = [worker_call EXCEPT !.result = r,
                                           !.opened = r.error \notin ValidationErrors]
  /\ pc' = "w_done"
  /\ UNCHANGED <<analyzer, dir, save_interval, cpu_count, retries, service,
                 requests_module, submission, extract, call, csv, pm, runcfg, files,
                 fut, cur, stats, lastWrite, intr, how, hist>>

NextWorker == WorkerCall

SpecWorker == InitWorker /\ [][NextWorker]_vars

(***************************************************************************)
(* C24 as stated.  Size ceiling: a file whose size is equal to or above    *)
(* the ceiling of 100 MiB yields the 'too large' failure and its archive   *)
(* is not opened; only a size strictly below the ceiling is accepted.      *)
(***************************************************************************)
C24_SizeCeiling ==
  (pc = "w_done" /\ worker_call.attrs.exists
                /\ worker_call.attrs.size >= SizeCeiling) =>
    /\ worker_call.result = Failure(worker_call.fname, "File too large (>100MB)")
    /\ ~worker_call.opened

(***************************************************************************)
(* C24 as the code has it.  The ceiling is inclusive: a file of more than  *)
(* 100 MiB yields the failure 'File too large (>100MB)' and its archive is *)
(* not opened; a non-empty file of at most 100 MiB, the ceiling included,  *)
(* never yields that failure, and with a .sb3 name its archive is opened.  *)
(***************************************************************************)
C24_CeilingIsInclusive ==
  (pc = "w_done" /\ worker_call.attrs.exists /\ worker_call.attrs.size # 0) =>
    IF worker_call.attrs.size > SizeCeiling
    THEN /\ worker_call.result = Failure(worker_call.fname, "File too large (>100MB)")
         /\ ~worker_call.opened
    ELSE /\ worker_call.result.error # "File too large (>100MB)"
         /\ EndsWith(Lower(NameChars(worker_call.fname)), DotSb3) => worker_call.opened

\* a project of exactly 100 MiB was analysed with success
C24_CeilingAccepted ==
  /\ pc = "w_done"
  /\ worker_call.attrs.size = SizeCeiling
  /\ worker_call.opened
  /\ worker_call.result.success

(***************************************************************************)
(* C25.  Well-formed output across runs: after any sequence of runs of the *)
(* metadata analyzer on the same output path (resumes, reprocess runs,     *)
(* enrichment switched on or off), whenever a run has returned the output  *)
(* file is one header row followed only by data rows with one cell per     *)
(* column of that header; rows are appended to an existing file only when  *)
(* its header is the schema of the run.                                    *)
(***************************************************************************)
C25_WellFormedOutput ==
  (analyzer = "meta" /\ pc = "done" /\ csvDisk # <<>>) =>
    /\ csvDisk[1].h
    /\ \A i \in 2..Len(csvDisk) :
         /\ ~csvDisk[i].h
         /\ Len(csvDisk[i].cells) = Len(csvDisk[1].cells)
    /\ (Len(csvDisk) > hist.base /\ hist.base > 0 /\ ~ignore_progress) =>
         csvDisk[1].cells = get_fieldnames(fetch_metadata)

(***************************************************************************)
(* C26.  Progress monotonicity: within one run of the metadata analyzer    *)
(* the in-memory progress set only grows; it changes only in the           *)
(* coordinator's step that follows an accepted writerow, by the name of    *)
(* the row just written; a step of a worker leaves it unchanged.           *)
(***************************************************************************)
C26_ProgressMonotone ==
  [][(analyzer = "meta" /\ hist'.runs = hist.runs /\ pc' # "idle") =>
       /\ processed \subseteq processed'
       /\ processed' # processed =>
            /\ pc = "wrote"
            /\ lastWrite.name = cur
            /\ lastWrite.accepted
            /\ HasRow(csvBuf, cur)
            /\ processed' = processed \cup {cur}
       /\ (\E f \in Names : fut[f] = "running" /\ fut'[f] = "done") =>
            processed' = processed]_vars

\* both items of a run have been marked, one after the other
C26_TwoMarked ==
  /\ analyzer = "meta"
  /\ pc = "flush"
  /\ Cardinality(processed \ startProgress) = 2

(***************************************************************************)
(* C27.  Failure isolation in the Pool analyzer: the step that consumes    *)
(* the outcome of a file whose analysis raised, whatever the message of    *)
(* the exception (the empty one included), writes no row, adds nothing to  *)
(* the progress set or the progress file, and stays in the loop that       *)
(* consumes the outcomes of the remaining files.                           *)
(***************************************************************************)
C27_PoolFailureIsolated ==
  [][(/\ analyzer = "pool"
      /\ \E f \in Names : fut[f] = "done" /\ fut'[f] = "consumed" /\ PoolFails(f)) =>
       /\ pc' = "p_loop"
       /\ how' = "running"
       /\ csvBuf' = csvBuf
       /\ processed' = processed
       /\ progDisk' = progDisk]_vars

\* a run of the Pool analyzer that found no non-empty output file, and the
\* files pending at its start, sorted
BootRun ==
  /\ analyzer = "pool"
  /\ hist.base = 0
  /\ pc # "idle"
  /\ how \in {"running", "normal", "aborted"}

BootPending == ListSb3(startProgress)

\* the position in BootPending of the first file whose analysis succeeds
FirstSuccess ==
  CHOOSE i \in 1..Len(BootPending) :
    /\ ~PoolFails(BootPending[i])
    /\ \A j \in 1..i - 1 : PoolFails(BootPending[j])

(***************************************************************************)
(* C28.  Schema bootstrap in the Pool analyzer: with no non-empty output   *)
(* file the pending files are analysed one by one in lexicographic order,  *)
(* no pool running, until the first success; its keys become the header,   *)
(* its row is written and it is marked done; every file tried in this      *)
(* phase is consumed for the rest of the run (never handed to the pool),   *)
(* no file gets more than one row in a run, and when no file succeeds no   *)
(* pool is started and no output is created.                               *)
(***************************************************************************)
C28_SchemaBootstrap ==
  BootRun =>
    /\ pc = "p_boot" =>
         /\ csvDisk = <<>>
         /\ \A f \in Names : fut[f] \in {"none", "consumed"}
         /\ \E k \in 0..Len(BootPending) :
              /\ files = SubSeq(BootPending, k + 1, Len(BootPending))
              /\ \A i \in 1..k : /\ PoolFails(BootPending[i])
                                 /\ fut[BootPending[i]] = "consumed"
    /\ IF \A i \in 1..Len(BootPending) : PoolFails(BootPending[i])
       THEN /\ pc \in {"p_boot", "done"}
            /\ csvDisk = <<>>
            /\ csvBuf = <<>>
            /\ processed = startProgress
            /\ \A f \in Names : fut[f] \in {"none", "consumed"}
       ELSE pc # "p_boot" =>
              LET b == BootPending[FirstSuccess]
                  row == flatten_metrics(b, analyze_file(KindAttrs(dir[b])).metrics)
              IN /\ Len(csvDisk) >= 2
                 /\ csvDisk[1] = writeheader(DictKeys(row))
                 /\ csvDisk[2] = writerow(DictKeys(row), row).line
                 /\ fieldnames = DictKeys(row)
                 /\ pc # "p_bootwrote" => b \in processed /\ b \in SeqToSet(progDisk)
                 /\ \A i \in 1..FirstSuccess : fut[BootPending[i]] = "consumed"
    /\ \A f \in Names : RunRowCount(f) <= 1

\* the first file failed in the bootstrap, the second gave the schema, and
\* the run ended
C28_SecondFileGaveSchema ==
  /\ BootRun
  /\ pc = "done"
  /\ how = "normal"
  /\ Len(BootPending) = 2
  /\ PoolFails(BootPending[1])
  /\ ~PoolFails(BootPending[2])
  /\ csvDisk[2].cells[1] = BootPending[2]
  /\ Len(csvDisk) = 2

\* no file succeeded: the run ended in the bootstrap
C28_NoSchema ==
  /\ BootRun
  /\ pc = "done"
  /\ Len(BootPending) = 2
  /\ \A i \in 1..2 : PoolFails(BootPending[i])

(***************************************************************************)
(* The chunked submission of the metadata analyzer, lines 557-588, for a   *)
(* list of pending files and a --chunk-size.  submission holds the         *)
(* argument, the effective chunk size, the loop index and the              *)
(* executor.submit calls in their order; the other variables of a run stay *)
(* parked.                                                                 *)
(***************************************************************************)
\* the pending files of a directory of n projects, sorted
PendingFiles(n) == [k \in 1..n |-> ToString(100 + k) \o ".sb3"]

\* --chunk-size: absent, or any integer (argparse type=int)
ChunkSizes ==
  {[isNone |-> TRUE, val |-> 0]} \cup
  {[isNone |-> FALSE, val |-> c] : c \in -MaxChunk..MaxChunk}

\* x or y of Python on an optional integer
Or(x, y) == IF x.isNone \/ x.val = 0 THEN y ELSE x.val

\* i in range(0, stop, step) is not exhausted at i
InRange(i, stop, step) == IF step > 0 THEN i < stop ELSE i > stop

\* files[i:j] for 0 <= i <= j
Slice(fs, i, j) == SubSeq(fs, i + 1, Min(j, Len(fs)))

InitChunk ==
  /\ analyzer = "submit"
  /\ dir = [n \in Names |-> "blocks"]
  /\ fetch_metadata = FALSE
  /\ cpu_count \in 1..MaxCpu
  /\ csvDisk = <<>>
  /\ csvBuf = <<>>
  /\ fieldnames = <<>>
  /\ files \in {PendingFiles(n) : n \in 1..MaxPending}
  /\ fut = NoFutures
  /\ num_processes = 0
  /\ cur = ""
  /\ successful = 0
  /\ failed = 0
  /\ no_blocks_count = 0
  /\ lastWrite = NoWrite
  /\ intr = NoIntr
  /\ hist = [runs |-> 0, clean |-> TRUE, window |-> {}, base |-> 0, cut |-> FALSE]
  /\ FetchParked
  /\ save_interval = DefaultSaveInterval
  /\ progDisk = <<>>
  /\ ignore_progress = FALSE
  /\ processed = {}
  /\ startProgress = {}
  /\ counter = 0
  /\ pc = "c_start"
  /\ how = "running"
  /\ worker_call = NoWorkerCall
  /\ extract = NoExtract
  /\ \E c \in ChunkSizes : submission = [NoSubmission EXCEPT !.chunk_size = c]

\* lines 558-559: the number of processes and the effective chunk size
ChunkBegin ==
  /\ pc = "c_start"
  /\ LET np == default_num_processes(cpu_count, Len(files))
     IN /\ num_processes' = np
        /\ submission' =
             [submission EXCEPT !.effective_chunk_size =
                Or(submission.chunk_size, Max(1, Len(files) \div (np * 4)))]
  /\ pc' = "c_loop"
  /\ UNCHANGED <<analyzer, dir, save_interval, cpu_count, retries, service,
                 requests_module, worker_call, extract, call, csv, pm, ignore_progress,
                 fetch_metadata, fieldnames, startProgress, files, fut, cur, stats,
                 lastWrite, intr, how, hist>>

\* lines 584-588, one turn of the outer loop: the files of the chunk are
\* submitted one after the other
ChunkSubmit ==
  /\ pc = "c_loop"
  /\ InRange(submission.i, Len(files), submission.effective_chunk_size)
  /\ LET chunk == Slice(files, submission.i,
                        submission.i + submission.effective_chunk_size)
     IN submission' = [submission EXCEPT !.i = @ + submission.effective_chunk_size,
                                         !.submitted = @ \o chunk]
  /\ UNCHANGED <<analyzer, dir, save_interval, cpu_count, retries, service,
                 requests_module, worker_call, extract, call, csv, pm, pc, runcfg, files,
                 fut,
                 cur, stats, lastWrite, intr, how, hist>>

\* the range is exhausted: the coordinator goes on to as_completed
ChunkEnd ==
  /\ pc = "c_loop"
  /\ ~InRange(submission.i, Len(files), submission.effective_chunk_size)
  /\ pc' = "c_done"
  /\ UNCHANGED <<setup, csv, pm, runcfg, files, fut, cur, stats, lastWrite, intr, how,
                 hist>>

NextChunk ==
  \/ ChunkBegin
  \/ ChunkSubmit
  \/ ChunkEnd

SpecChunk == InitChunk /\ [][NextChunk]_vars

\* how often f has been submitted
Submitted(f) ==
  Cardinality({k \in 1..Len(submission.submitted) : submission.submitted[k] = f})

(***************************************************************************)
(* C29.  Chunking does not change the work set: for every integer          *)
(* --chunk-size (and without one, the default max(1, pending // (4 *       *)
(* processes))) the submission loop, once it has ended, has submitted      *)
(* every pending file to the pool exactly once.                            *)
(***************************************************************************)
C29_EveryFileSubmittedOnce ==
  pc = "c_done" => \A k \in 1..Len(files) : Submitted(files[k]) = 1

\* the data rows the current run has written
RowsWritten == {i \in 1..Len(RunLines) : ~RunLines[i].h}

RECURSIVE RowsOfFirstRun(_, _, _)
RowsOfFirstRun(d, ok, fm) ==
  IF ok = <<>> THEN <<>>
  ELSE <<writerow(get_fieldnames(fm),
                  EnrichedRow(_worker_analyze(Head(ok), KindAttrs(d[Head(ok)])),
                              fm, "ok")).line>>
       \o RowsOfFirstRun(d, Tail(ok), fm)

FirstRunOk(d) == {f \in Names : _worker_analyze(f, KindAttrs(d[f])).success}

FirstRunCsv(d, fm) ==
  <<writeheader(get_fieldnames(fm))>> \o RowsOfFirstRun(d, Sorted(FirstRunOk(d)), fm)

InitAnalysed ==
  /\ analyzer = "meta"
  /\ \E d \in {e \in [Names -> DirKinds] : \A n \in Names : e[n] \in KindsOf(n)},
        fm \in BOOLEAN :
       /\ dir = d
       /\ csvDisk = FirstRunCsv(d, fm)
       /\ progDisk = save_progress(FirstRunOk(d))
  /\ fetch_metadata = FALSE
  /\ save_interval = DefaultSaveInterval
  /\ cpu_count \in 1..MaxCpu
  /\ csvBuf = <<>>
  /\ pc = "idle"
  /\ ignore_progress = FALSE
  /\ processed = {}
  /\ counter = 0
  /\ fieldnames = <<>>
  /\ files = <<>>
  /\ fut = NoFutures
  /\ num_processes = 0
  /\ cur = ""
  /\ successful = 0
  /\ failed = 0
  /\ no_blocks_count = 0
  /\ startProgress = {}
  /\ lastWrite = NoWrite
  /\ intr = NoIntr
  /\ how = "none"
  /\ hist = [runs |-> 0, clean |-> TRUE, window |-> {}, base |-> 0, cut |-> FALSE]
  /\ FetchParked
  /\ HarnessParked

NextAnalysed ==
  \/ \E ign \in BOOLEAN : MetaStart(ign)
  \/ \E ign \in BOOLEAN, env \in Environments : MetaInvalid(ign, env)
  \/ \E ign \in BOOLEAN : MetaPoolError(ign)
  \/ \E f \in Names : WorkerDone(f)
  \/ \E f \in Names, o \in FetchOutcomes : MetaConsume(f, o)
  \/ MetaAdd
  \/ MetaFlush
  \/ MetaLoopEnd
  \/ MetaInterrupt
  \/ MetaDrainEnd
  \/ CloseCsv
  \/ Crash

SpecAnalysed == InitAnalysed /\ [][NextAnalysed]_vars

(***************************************************************************)
(* C31.  Stale progress in reprocess mode: when a reprocess run has been   *)
(* killed after it truncated the output file and the normal run that       *)
(* follows it has ended normally, the output holds a row for every item    *)
(* whose pipeline succeeds; between the two runs the progress file lists   *)
(* no identifier whose row the truncation removed.                         *)
(***************************************************************************)
C31_NoStaleProgress ==
  (analyzer = "meta" /\ hist.cut) =>
    /\ (pc = "idle" /\ how = "killed" /\ ignore_progress) =>
         \A f \in SeqToSet(progDisk) : HasRow(csvDisk, f)
    /\ (pc = "done" /\ how = "normal" /\ ~ignore_progress) =>
         \A f \in SbFiles : Succeeds(f) => HasRow(csvDisk, f)

(***************************************************************************)
(* extract_scratch_meta.main: the standalone metadata extractor.  A file   *)
(* is a path, the folder below the input folder and the file name; every   *)
(* file is submitted to the executor, the rows are collected in the order  *)
(* in which the workers complete, sorted, and written.                     *)
(***************************************************************************)
ExtractTree ==
  {[folder |-> "", name |-> "100.sb3"], [folder |-> "", name |-> "abc.sb3"],
   [folder |-> "", name |-> "7.SB3"], [folder |-> "", name |-> "notes.txt"],
   [folder |-> "sub", name |-> "100.sb3"]}

\* os.path.join(root, f) below the input folder
PathChars(p) ==
  IF p.folder = "" THEN NameChars(p.name)
  ELSE <<115, 117, 98, 47>> \o NameChars(p.name)

RECURSIVE SortedPaths(_)
SortedPaths(S) ==
  IF S = {} THEN <<>>
  ELSE LET m == CHOOSE x \in S : \A y \in S \ {x} : StrLess(PathChars(x), PathChars(y))
       IN <<m>> \o SortedPaths(S \ {m})

\* os.walk when --recursive, os.listdir otherwise; names that end in .sb3
\* whatever their case; files.sort()
iter_sb3_files(tree, recursive) ==
  SortedPaths({p \in tree : /\ recursive \/ p.folder = ""
                            /\ EndsWith(Lower(NameChars(p.name)), DotSb3)})

ExtractFieldnames ==
  <<"project_id", "Project title", "Author", "Creation date", "Modified date",
    "Remix parent id", "Remix root id", "filename", "_error">>

\* worker(path): the row of one file; r is what the last attempt of its
\* fetch came to
worker(p, r) ==
  LET pid == get_project_id_from_filename(p.name)
  IN ExtractRow(p.name, pid,
                IF r = "ok"
                THEN [raised |-> FALSE, last_err |-> NoneVal,
                      meta |-> on_success("extract_scratch_meta", pid.val)]
                ELSE [raised |-> TRUE, last_err |-> ErrText(r), meta |-> <<>>])

\* the sort key of a row: (project_id, or -1 for None, then filename); the
\* project_id of a row is the id of its filename (lines 92, 95 and 62)
sort_key(row) ==
  LET pid == get_project_id_from_filename(DictGet(row, "filename"))
  IN [id |-> IF pid.isNone THEN -1 ELSE pid.val, filename |-> DictGet(row, "filename")]

\* tuple comparison of two keys
KeyLess(a, b) ==
  \/ a.id < b.id
  \/ a.id = b.id /\ NameLess(a.filename, b.filename)

RECURSIVE InsertByKey(_, _)
InsertByKey(sorted, row) ==
  IF sorted = <<>> THEN <<row>>
  ELSE IF KeyLess(sort_key(row), sort_key(Head(sorted))) THEN <<row>> \o sorted
  ELSE <<Head(sorted)>> \o InsertByKey(Tail(sorted), row)

\* list.sort(key=...): stable, rows of equal keys keep their order
RECURSIVE list_sort(_)
list_sort(rows) ==
  IF rows = <<>> THEN <<>>
  ELSE InsertByKey(list_sort(SubSeq(rows, 1, Len(rows) - 1)), rows[Len(rows)])

InitExtract ==
  /\ analyzer = "extract_scratch_meta.main"
  /\ \E t \in {ExtractTree, {[folder |-> "", name |-> "notes.txt"]}}, rec \in BOOLEAN :
       \E o \in [{p \in t : ~get_project_id_from_filename(p.name).isNone} -> Responses] :
          extract = [tree |-> t, recursive |-> rec, outcome |-> o, sb3_files |-> <<>>,
                     done |-> {}, results |-> <<>>]
  /\ dir = EmptiedDir
  /\ csvDisk = <<>>
  /\ progDisk = <<>>
  /\ csvBuf = <<>>
  /\ pc = "x_start"
  /\ how = "running"
  /\ ignore_progress = FALSE
  /\ fetch_metadata = FALSE
  /\ processed = {}
  /\ counter = 0
  /\ save_interval = DefaultSaveInterval
  /\ cpu_count = 1
  /\ fieldnames = ExtractFieldnames
  /\ files = <<>>
  /\ fut = [f \in Names |-> "none"]
  /\ num_processes = 1
  /\ cur = NoneVal
  /\ successful = 0 /\ failed = 0 /\ no_blocks_count = 0
  /\ startProgress = {}
  /\ lastWrite = NoWrite
  /\ intr = "none"
  /\ hist = [runs |-> 0, clean |-> TRUE, window |-> {}, base |-> 0, cut |-> FALSE]
  /\ FetchParked
  /\ worker_call = NoWorkerCall
  /\ submission = NoSubmission

ExtractUnchanged ==
  UNCHANGED <<analyzer, dir, save_interval, cpu_count, retries, service, requests_module,
              worker_call, submission, call, csvBuf, pm, runcfg, files, fut, cur,
              lastWrite, intr, hist>>

\* lines 134-159: the files are enumerated; with none the program exits
\* with status 0, otherwise every file is submitted
ExtractBegin ==
  /\ analyzer = "extract_scratch_meta.main"
  /\ pc = "x_start"
  /\ LET sb3_files == iter_sb3_files(extract.tree, extract.recursive)
     IN /\ extract' = [extract EXCEPT !.sb3_files = sb3_files]
        /\ IF sb3_files = <<>>
           THEN pc' = "x_done" /\ how' = "no_files"
           ELSE pc' = "x_pool" /\ how' = "running"
  /\ UNCHANGED <<csvDisk, stats>>
  /\ ExtractUnchanged

\* lines 160-161: as_completed yields the future of p, whichever completes
\* next, and its row is appended to results
ExtractCompleted(p) ==
  /\ analyzer = "extract_scratch_meta.main"
  /\ pc = "x_pool"
  /\ p \in SeqToSet(extract.sb3_files) \ extract.done
  /\ extract' = [extract EXCEPT
       !.done = @ \cup {p},
       !.results = Append(@, worker(p, IF p \in DOMAIN extract.outcome
                                       THEN extract.outcome[p] ELSE "ok"))]
  /\ UNCHANGED <<csvDisk, pc, how, stats>>
  /\ ExtractUnchanged

\* lines 163-176: every future has been yielded; results is sorted and
\* written after the header, and the rows without _error are counted
ExtractWrite ==
  /\ analyzer = "extract_scratch_meta.main"
  /\ pc = "x_pool"
  /\ extract.done = SeqToSet(extract.sb3_files)
  /\ LET results == list_sort(extract.results)
         ok == Cardinality({i \in 1..Len(results) :
                              DictGet(results[i], "_error") \in {NoneVal, ""}})
     IN /\ extract' = [extract EXCEPT !.results = results]
        /\ csvDisk' = <<writeheader(ExtractFieldnames)>>
                      \o [i \in 1..Len(results) |->
                            writerow(ExtractFieldnames, results[i]).line]
        /\ successful' = ok
        /\ failed' = Len(results) - ok
        /\ UNCHANGED no_blocks_count
  /\ pc' = "x_done"
  /\ how' = "normal"
  /\ ExtractUnchanged

NextExtract ==
  \/ ExtractBegin
  \/ \E p \in ExtractTree : ExtractCompleted(p)
  \/ ExtractWrite

SpecExtract == InitExtract /\ [][NextExtract]_vars

\* the rows workers return when they complete in the order of submission
RECURSIVE RowsInSubmissionOrder(_)
RowsInSubmissionOrder(paths) ==
  IF paths = <<>> THEN <<>>
  ELSE <<worker(Head(paths), IF Head(paths) \in DOMAIN extract.outcome
                             THEN extract.outcome[Head(paths)] ELSE "ok")>>
       \o RowsInSubmissionOrder(Tail(paths))

ExtractEnded == analyzer = "extract_scratch_meta.main" /\ pc = "x_done" /\ how = "normal"

\* the cells of the data rows of the output
OutRows == [i \in 1..Len(csvDisk) - 1 |-> csvDisk[i + 1].cells]

\* the row has no metadata and an error text
NullMetaWithError(cells) ==
  /\ \A k \in 2..7 : cells[k] = ""
  /\ cells[9] # ""

(***************************************************************************)
(* C32.  Standalone metadata extractor: in whatever order the workers      *)
(* complete, the output holds exactly one row per enumerated file, the     *)
(* rows are in the one order that the sort fixes (project id, files        *)
(* without an id first, then file name), and a file whose fetch fails or   *)
(* whose name has no id has a row with no metadata and an error text.      *)
(***************************************************************************)
C32_ExtractRowsAndOrder ==
  ExtractEnded =>
    /\ Len(OutRows) = Len(extract.sb3_files)
    /\ \A p \in SeqToSet(extract.sb3_files) :
         Cardinality({i \in 1..Len(OutRows) : OutRows[i][8] = p.name})
           = Cardinality({q \in SeqToSet(extract.sb3_files) : q.name = p.name})
    /\ extract.results = list_sort(RowsInSubmissionOrder(extract.sb3_files))
    /\ \A i \in 1..Len(extract.results) - 1 :
         ~KeyLess(sort_key(extract.results[i + 1]), sort_key(extract.results[i]))
    /\ \A p \in SeqToSet(extract.sb3_files) :
         (\/ get_project_id_from_filename(p.name).isNone
          \/ extract.outcome[p] # "ok")
           => \E i \in 1..Len(OutRows) :
                OutRows[i][8] = p.name /\ NullMetaWithError(OutRows[i])

====
